---- MODULE Spec2Model ----
(***************************************************************************)
(* A model of the staking oracle service (src/oracle/oracle.py): the era    *)
(* loop of Oracle.start, the state restore, the search for the last block   *)
(* of the previous era, the finalization wait, the per-stash reporting      *)
(* and the recovery envelope, together with the relay chain and the         *)
(* OracleMaster view they read.                                             *)
(***************************************************************************)
EXTENDS Integers, Sequences, FiniteSets, TLC

\* ------------------------------------------------------------------------
\* Bounds of the model
\* ------------------------------------------------------------------------
\* number of events of the environment in one run: blocks produced, switches
\* of the node that answers, calls that fail
MaxEvents == 1
\* ERA_DURATION_IN_BLOCKS of the controller runs
EraDurationInBlocks == 2
\* bounds of the inputs of the block search checked on its own
MaxHead == 4
MaxDur == 5
TargetEra == 2
\* bounds of the state restore checked on its own
MaxViewEra == 2
MaxRuns == 3
\* bounds of the chain state read by the report builder checked on its own
MaxBalance == 1
MaxChunks == 1
MaxSpans == 1
\* bounds of the timed runs of the inner loop: the clock, the relay era, the
\* delays configured and the time one call may take
MaxTime == 5
MaxTickEra == 1
MaxDelay == 2
MaxStep == 1
\* bounds of the start of the process: the connections tried for one
\* session and the URLs of a session
MaxConnects == 21
MaxUrls == 2

Stashes == {"s1", "s2"}
StashLists == {<<>>, <<"s1">>, <<"s1", "s2">>}

VARIABLES
    \* relay chain: eraAt[n + 1] is Staking.ActiveEra.index at block n
    eraAt,
    \* number of the finalized head
    finHead,
    \* blocks with a number >= forkFrom are served from the second fork
    forkFrom,
    \* OracleMaster: getStashAccounts() and isReportedLastEra(oracle, s)
    stashAccounts,
    onchain,
    \* ServiceParameters.debug_mode
    debug_mode,
    \* Oracle fields
    last_era_reported,
    previous_active_era_id,
    was_recovered,
    \* 0 as long as no disagreement with OracleMaster is recorded, 1 for the
    \* time of the tick that recorded one
    era_delay_time_start,
    \* position of the controller and the locals of the running handlers
    pc,
    active_era_id,
    block,
    finalised_head_number,
    block_hash_,
    idx,
    exc,
    \* metrics_exporter gauges
    m_last_era_reported,
    m_last_failed_era,
    is_recovery_mode_active,
    era_update_delayed,
    \* what the last step of the controller did
    ev,
    \* history: (stash, era) pairs with a submitted transaction, with a
    \* finished submit_report, detected eras whose finalization wait raised
    \* BlockNotFound and whose reporting has not finished since
    sentSet,
    processedSet,
    bnfEras,
    \* number of events of the environment so far
    events,
    \* state of the block search run on its own
    flb,
    \* state of the repeated state restore run on its own
    rst,
    \* state of the report builder run on its own
    rp,
    \* state of the inner loop of start run against a clock
    tk,
    \* state of the process from main() to its exit
    mn

envVars == <<eraAt, finHead, forkFrom, stashAccounts, onchain, debug_mode>>
fields == <<last_era_reported, previous_active_era_id, was_recovered,
            era_delay_time_start>>
locals == <<active_era_id, block, finalised_head_number, block_hash_, idx>>
metrics == <<m_last_era_reported, m_last_failed_era, is_recovery_mode_active,
             era_update_delayed>>
hist == <<sentSet, processedSet, bnfEras>>
ctrlVars == <<fields, locals, metrics, hist, pc, exc>>
oracleVars == <<ctrlVars, ev, events>>
unitVars == <<flb, rst, rp, tk, mn>>
vars == <<envVars, oracleVars, unitVars>>

NoFork == MaxEvents + MaxHead + 3
NoEvent == [op |-> "none"]
ChainEvent == [op |-> "chain"]

\* ------------------------------------------------------------------------
\* Relay chain reads
\* ------------------------------------------------------------------------
\* substrate.get_block_hash(n): the hash of block n on the fork served
GetBlockHash(n, fork) == <<n, IF n >= fork THEN 1 ELSE 0>>

\* Staking.ActiveEra.index at a block hash
EraAtHash(h, eras) == eras[h[1] + 1]

\* ------------------------------------------------------------------------
\* Oracle._find_last_block
\* ------------------------------------------------------------------------
\* the state before a loop that searches every block up to the head
FindInitFromGenesis(current_block_number, dur) ==
    [start  |-> 0,
     end    |-> current_block_number,
     block  |-> <<>>,
     probes |-> 0,
     raised |-> FALSE]

\* the state before the loop: start, end, block_hash and block_number
FindInit(current_block_number, dur) ==
    [start  |-> IF current_block_number - dur > 0
                THEN current_block_number - dur ELSE 0,
     end    |-> current_block_number,
     block  |-> <<>>,
     probes |-> 0,
     raised |-> FALSE]

\* the iteration with the candidate left at mid when the probe is in era_id
FindIterCandidateAtMid(st, era_id, eras, fork) ==
    LET mid == (st.start + st.end) \div 2
        era_id_specified == EraAtHash(GetBlockHash(mid, fork), eras)
    IN [start  |-> IF era_id_specified < era_id THEN mid + 1 ELSE st.start,
        end    |-> IF era_id_specified < era_id THEN st.end ELSE mid - 1,
        block  |-> <<GetBlockHash(mid, fork), mid>>,
        probes |-> st.probes + 1,
        raised |-> FALSE]

\* the iteration that keeps the probe in the interval when it moves left
FindIterEndAtMid(st, era_id, eras, fork) ==
    LET mid == (st.start + st.end) \div 2
        era_id_specified == EraAtHash(GetBlockHash(mid, fork), eras)
        number == IF era_id_specified = era_id THEN mid - 1 ELSE mid
    IN [start  |-> IF era_id_specified < era_id THEN mid + 1 ELSE st.start,
        end    |-> IF era_id_specified < era_id THEN st.end ELSE mid,
        block  |-> IF number < 0 THEN <<>>
                   ELSE <<GetBlockHash(number, fork), number>>,
        probes |-> st.probes + 1,
        raised |-> number < 0]

\* one iteration of the loop; get_block_hash of a negative number fails and
\* _get_block_hash turns the failure into BlockNotFound
FindIter(st, era_id, eras, fork) ==
    LET mid == (st.start + st.end) \div 2
        era_id_specified == EraAtHash(GetBlockHash(mid, fork), eras)
        number == IF era_id_specified = era_id THEN mid - 1 ELSE mid
    IN [start  |-> IF era_id_specified < era_id THEN mid + 1 ELSE st.start,
        end    |-> IF era_id_specified < era_id THEN st.end ELSE mid - 1,
        block  |-> IF number < 0 THEN <<>>
                   ELSE <<GetBlockHash(number, fork), number>>,
        probes |-> st.probes + 1,
        raised |-> number < 0]

RECURSIVE FindLoop(_, _, _, _)
FindLoop(st, era_id, eras, fork) ==
    IF st.raised \/ st.start > st.end THEN st
    ELSE FindLoop(FindIter(st, era_id, eras, fork), era_id, eras, fork)

find_last_block(era_id, current_block_number, dur, eras, fork) ==
    FindLoop(FindInit(current_block_number, dur), era_id, eras, fork)

\* ------------------------------------------------------------------------
\* Oracle._restore_state
\* ------------------------------------------------------------------------
DictSet(d, k, v) == [x \in DOMAIN d \cup {k} |-> IF x = k THEN v ELSE d[x]]
DictGet(d, k, default) == IF k \in DOMAIN d THEN d[k] ELSE default
EmptyDict == [x \in {} |-> 0]

\* the restored era without the step back for a stash that is not reported
RestoredEraAlwaysLast(view) == view.era

\* era_id if is_reported else era_id - 1
RestoredEra(view) == IF view.reported THEN view.era ELSE view.era - 1

\* the restore with the step back taken from the entry the dictionary holds
RECURSIVE RestoreFirstFromEntry(_, _, _, _)
RestoreFirstFromEntry(lr, stashes, view, k) ==
    IF k = 0 THEN lr
    ELSE LET d == RestoreFirstFromEntry(lr, stashes, view, k - 1)
             v == view[stashes[k]]
         IN DictSet(d, stashes[k],
                    IF v.reported THEN v.era ELSE DictGet(d, stashes[k], v.era) - 1)

\* the dictionary after the first k stashes of the list were restored
RECURSIVE RestoreFirst(_, _, _, _)
RestoreFirst(lr, stashes, view, k) ==
    IF k = 0 THEN lr
    ELSE DictSet(RestoreFirst(lr, stashes, view, k - 1),
                 stashes[k], RestoredEra(view[stashes[k]]))


\* the dictionary after a whole run
RestoreAll(lr, stashes, view) == RestoreFirst(lr, stashes, view, Len(stashes))

\* ------------------------------------------------------------------------
\* ReportParametersReader.get_stash_staking_parameters and Oracle._create_tx
\* ------------------------------------------------------------------------
IDLE == 0
NOMINATOR == 1
VALIDATOR == 2

\* a storage query that returns no value
None == << >>
NoSpans == -1

\* Keypair: the ss58 address of a public key, the public key of an address
Ss58Address(public_key) == <<"ss58", public_key>>
PublicKey(ss58_address) == ss58_address[2]

\* _get_stake_status once both queries have answered
StakeStatus(stash, cs) ==
    IF Ss58Address(stash) \in cs.nominators THEN NOMINATOR
    ELSE IF Ss58Address(stash) \in cs.validators THEN VALIDATOR
    ELSE IDLE

\* the unlocking chunks of the ledger as the report carries them
ReportUnlocking(unlocking) ==
    [i \in 1..Len(unlocking) |->
        [balance |-> unlocking[i].value, era |-> unlocking[i].era]]

\* the report of a stash without a ledger that keeps the status read
ReportWithoutLedgerStatusKept(stash, stash_free_balance, stake_status) ==
    [stashAccount      |-> stash,
     controllerAccount |-> stash,
     stakeStatus       |-> stake_status,
     activeBalance     |-> 0,
     totalBalance      |-> 0,
     unlocking         |-> << >>,
     claimedRewards    |-> << >>,
     stashBalance      |-> stash_free_balance,
     slashingSpans     |-> 0]

\* the report returned when _get_ledger_data returns None
ReportWithoutLedger(stash, stash_free_balance, stake_status) ==
    [stashAccount      |-> stash,
     controllerAccount |-> stash,
     stakeStatus       |-> 3,
     activeBalance     |-> 0,
     totalBalance      |-> 0,
     unlocking         |-> << >>,
     claimedRewards    |-> << >>,
     stashBalance      |-> stash_free_balance,
     slashingSpans     |-> 0]

\* the report that carries the claimedRewards the ledger stores
ReportFromLedgerWithRewards(stash, stash_free_balance, stake_status, result) ==
    [stashAccount      |-> stash,
     controllerAccount |-> PublicKey(result.controller),
     stakeStatus       |-> stake_status,
     activeBalance     |-> result.active,
     totalBalance      |-> result.total,
     unlocking         |-> ReportUnlocking(result.unlocking),
     claimedRewards    |-> result.claimedRewards,
     stashBalance      |-> stash_free_balance,
     slashingSpans     |-> result.slashingSpans_number]

\* the report returned from the data of the ledger
ReportFromLedger(stash, stash_free_balance, stake_status, result) ==
    [stashAccount      |-> stash,
     controllerAccount |-> PublicKey(result.controller),
     stakeStatus       |-> stake_status,
     activeBalance     |-> result.active,
     totalBalance      |-> result.total,
     unlocking         |-> ReportUnlocking(result.unlocking),
     claimedRewards    |-> << >>,
     stashBalance      |-> stash_free_balance,
     slashingSpans     |-> result.slashingSpans_number]

\* the dictionary _get_ledger_data returns for a bonded stash
LedgerData(cs) ==
    [controller           |-> cs.bonded,
     active               |-> cs.ledger.active,
     total                |-> cs.ledger.total,
     unlocking            |-> cs.ledger.unlocking,
     claimedRewards       |-> cs.ledger.claimedRewards,
     slashingSpans_number |-> IF cs.spans = NoSpans THEN 0 ELSE cs.spans]

NoReport == [stashAccount |-> ""]

\* get_stash_staking_parameters at a pinned block with the chain state cs;
\* fail is the number of the query that raises, 0 for none, in the order
\* System.Account, Staking.Nominators, Session.Validators, Staking.Bonded,
\* Staking.Ledger, Staking.SlashingSpans; a query that is not reached does
\* not raise, a System.Account or Staking.Ledger without a value raises
get_stash_staking_parameters(stash, cs, fail) ==
    LET accountRaises    == fail = 1 \/ ~cs.account
        nominatorsRaise  == fail = 2
        validatorsRaise  == Ss58Address(stash) \notin cs.nominators /\ fail = 3
        bondedRaises     == fail = 4
        ledgerRaises     == cs.bonded # None /\ (fail = 5 \/ ~cs.ledger.some)
        spansRaise       == cs.bonded # None /\ fail = 6
    IN IF \/ accountRaises \/ nominatorsRaise \/ validatorsRaise
          \/ bondedRaises \/ ledgerRaises \/ spansRaise
       THEN [raised |-> TRUE, report |-> NoReport]
       ELSE IF cs.bonded = None
       THEN [raised |-> FALSE,
             report |-> ReportWithoutLedger(stash, cs.free, StakeStatus(stash, cs))]
       ELSE [raised |-> FALSE,
             report |-> ReportFromLedger(stash, cs.free, StakeStatus(stash, cs),
                                         LedgerData(cs))]

\* the arguments of reportRelay in the transaction _create_tx builds
create_tx(era_id, staking_parameters) ==
    [fn |-> "reportRelay", era_id |-> era_id, report |-> staking_parameters]

\* ------------------------------------------------------------------------
\* Exceptions and the envelope of Oracle.start
\* ------------------------------------------------------------------------
\* types listed in utils.EXPECTED_NETWORK_EXCEPTIONS that the model raises
EXPECTED_NETWORK_EXCEPTIONS ==
    {"BlockNotFound", "ConnectionClosedError", "WebSocketConnectionClosedException"}

SocketClosedMsg == "socket is already closed."

BlockNotFound == [type |-> "BlockNotFound", msg |-> ""]

\* what a failing RPC call may raise
RpcFailures ==
    {[type |-> "ConnectionClosedError", msg |-> ""],
     [type |-> "WebSocketConnectionClosedException", msg |-> SocketClosedMsg],
     [type |-> "ValueError", msg |-> ""]}

NoExc == [type |-> "", msg |-> ""]

\* an exception leaves the inner loop of start and reaches its except clause
Raise(e) ==
    /\ exc' = e
    /\ pc' = "except"

\* a call fails and raises e
Fails(e) ==
    /\ events < MaxEvents
    /\ events' = events + 1
    /\ Raise(e)

\* ------------------------------------------------------------------------
\* Initial states
\* ------------------------------------------------------------------------
Range(q) == {q[i] : i \in 1..Len(q)}
Views == [era : {0}, reported : BOOLEAN]
InitChains == {<<0, 1>>, <<0, 0, 1>>}

EnvFixedForUnits ==
    /\ eraAt = <<1>>
    /\ finHead = 0
    /\ forkFrom = NoFork
    /\ debug_mode = FALSE

OracleFresh ==
    /\ previous_active_era_id = -1
    /\ was_recovered = FALSE
    /\ era_delay_time_start = 0
    /\ active_era_id = -1
    /\ block = <<>>
    /\ finalised_head_number = -1
    /\ block_hash_ = <<>>
    /\ idx = 0
    /\ exc = NoExc
    /\ m_last_era_reported = 0
    /\ m_last_failed_era = 0
    /\ is_recovery_mode_active = FALSE
    /\ era_update_delayed = FALSE
    /\ ev = NoEvent
    /\ sentSet = {}
    /\ processedSet = {}
    /\ bnfEras = {}
    /\ events = 0

FlbOff == [pc |-> "off"]
RstOff == [pc |-> "off"]
RpOff == [pc |-> "off"]
TkOff == [pc |-> "off"]
MnOff == [pc |-> "off"]

Init ==
    /\ eraAt \in InitChains
    /\ finHead \in 0..(Len(eraAt) - 1)
    /\ forkFrom = NoFork
    /\ stashAccounts \in StashLists
    /\ onchain \in [Range(stashAccounts) -> Views]
    /\ debug_mode \in BOOLEAN
    /\ last_era_reported = EmptyDict
    /\ OracleFresh
    /\ pc = "restoring"
    /\ flb = FlbOff
    /\ rst = RstOff
    /\ rp = RpOff
    /\ tk = TkOff
    /\ mn = MnOff

\* ------------------------------------------------------------------------
\* Relay chain and OracleMaster (the environment)
\* ------------------------------------------------------------------------
HeadNumber == Len(eraAt) - 1
LastEra == eraAt[Len(eraAt)]

\* the number of blocks of the active era at the head
BlocksOfLastEra == Cardinality({i \in 1..Len(eraAt) : eraAt[i] = LastEra})

\* a block is produced; the active era stays, for at most
\* ERA_DURATION_IN_BLOCKS blocks, or moves to the next one
NewBlock ==
    /\ events < MaxEvents
    /\ events' = events + 1
    /\ \E e \in {LastEra, LastEra + 1} :
         /\ e = LastEra => BlocksOfLastEra < EraDurationInBlocks
         /\ eraAt' = Append(eraAt, e)
    /\ ev' = ChainEvent
    /\ UNCHANGED <<finHead, forkFrom, stashAccounts, onchain, debug_mode>>
    /\ UNCHANGED <<ctrlVars, unitVars>>

\* the finalized head advances
Finalize ==
    /\ finHead < HeadNumber
    /\ finHead' = finHead + 1
    /\ ev' = ChainEvent
    /\ UNCHANGED <<eraAt, forkFrom, stashAccounts, onchain, debug_mode>>
    /\ UNCHANGED <<ctrlVars, events, unitVars>>

\* the endpoint starts to answer from another node: the node may be on
\* another fork of the chain and its finalized head may be behind
SwitchNode ==
    /\ forkFrom = NoFork
    /\ events < MaxEvents
    /\ events' = events + 1
    /\ \E k \in {0, NoFork}, f \in 0..finHead :
         /\ k = NoFork => f < finHead
         /\ forkFrom' = k
         /\ finHead' = f
    /\ ev' = ChainEvent
    /\ UNCHANGED <<eraAt, stashAccounts, onchain, debug_mode>>
    /\ UNCHANGED <<ctrlVars, unitVars>>

\* ------------------------------------------------------------------------
\* Oracle.start: restore, tick, except clause; Oracle._recover
\* ------------------------------------------------------------------------
\* _restore_state() and _update_oracle_balance() at the top of start; a call
\* that raises leaves the entries written before it
RestoreState ==
    /\ pc = "restoring"
    /\ \/ /\ last_era_reported' = RestoreAll(last_era_reported, stashAccounts, onchain)
          /\ pc' = "idle"
          /\ ev' = [op |-> "restore", done |-> TRUE]
          /\ UNCHANGED <<exc, events>>
       \/ \E k \in 0..Len(stashAccounts), e \in RpcFailures :
            /\ last_era_reported' = RestoreFirst(last_era_reported, stashAccounts, onchain, k)
            /\ ev' = [op |-> "restore", done |-> FALSE]
            /\ Fails(e)
    /\ UNCHANGED <<previous_active_era_id, was_recovered, era_delay_time_start>>
    /\ UNCHANGED <<locals, metrics, hist, envVars, unitVars>>

\* the comparison that takes an era handled already for a new one
IsNewEraOrSame(active, previous) == active >= previous

\* the comparison that decides whether a tick enters _handle_era_change
IsNewEra(active, previous) == active > previous

\* the end of an iteration of the inner loop: the sleep, the time added to
\* time_of_era_immutability and, when the sum exceeds the delay allowed,
\* _shutdown_after_timeout up to its sleep. The clock is not part of the
\* state: any iteration may be the one that exceeds the delay.
EndOfTick ==
    \E delayed \in BOOLEAN :
        /\ pc' = IF delayed THEN "shutdown" ELSE "idle"
        /\ era_update_delayed' = delayed

\* one iteration of the inner loop: the active era is read and compared with
\* the era of OracleMaster, which may have differed for longer than
\* ERA_DELAY_TIME, and then with the era handled last
Tick ==
    /\ pc = "idle"
    /\ \/ /\ \E agree \in BOOLEAN :
               era_delay_time_start' =
                   IF ~agree /\ era_delay_time_start = 0 THEN 1
                   ELSE era_delay_time_start
          /\ IF IsNewEra(LastEra, previous_active_era_id)
             THEN /\ active_era_id' = LastEra
                  /\ pc' = "handle"
                  /\ UNCHANGED <<was_recovered, era_update_delayed>>
             ELSE /\ was_recovered' = FALSE
                  /\ EndOfTick
                  /\ UNCHANGED active_era_id
          /\ ev' = [op |-> "tick", era |-> LastEra,
                    reporting |-> IsNewEra(LastEra, previous_active_era_id)]
          /\ UNCHANGED <<exc, events>>
       \/ /\ era_delay_time_start # 0
          /\ pc' = "shutdown"
          /\ era_update_delayed' = TRUE
          /\ ev' = [op |-> "delay"]
          /\ UNCHANGED <<active_era_id, was_recovered, era_delay_time_start,
                         exc, events>>
       \/ \E e \in RpcFailures :
            /\ Fails(e)
            /\ ev' = [op |-> "tick", era |-> -1, reporting |-> FALSE]
            /\ UNCHANGED <<active_era_id, was_recovered, era_delay_time_start,
                           era_update_delayed>>
    /\ UNCHANGED <<last_era_reported, previous_active_era_id>>
    /\ UNCHANGED <<block, finalised_head_number, block_hash_, idx>>
    /\ UNCHANGED <<m_last_era_reported, m_last_failed_era, is_recovery_mode_active>>
    /\ UNCHANGED <<hist, envVars, unitVars>>

\* a service that goes on with its loop after the sleep
ShutdownAfterTimeoutResumes ==
    /\ pc = "shutdown"
    /\ pc' = "idle"
    /\ ev' = [op |-> "exit"]
    /\ UNCHANGED <<fields, locals, metrics, hist, exc, events, envVars, unitVars>>

\* _shutdown_after_timeout after its sleep: the process sends itself SIGINT
\* and stop_signal_handler leaves it
ShutdownAfterTimeout ==
    /\ pc = "shutdown"
    /\ pc' = "exited"
    /\ ev' = [op |-> "exit"]
    /\ UNCHANGED <<fields, locals, metrics, hist, exc, events, envVars, unitVars>>

\* the locals of the handlers are gone once the handlers have returned or raised
LocalsDropped ==
    /\ active_era_id' = -1
    /\ block' = <<>>
    /\ finalised_head_number' = -1
    /\ block_hash_' = <<>>
    /\ idx' = 0

\* an except clause that leaves the process on an exception it does not expect
HandleExceptionExitsOnUnexpected ==
    /\ pc = "except"
    /\ IF exc.type \notin EXPECTED_NETWORK_EXCEPTIONS
       THEN /\ pc' = "exited"
            /\ UNCHANGED <<is_recovery_mode_active, was_recovered>>
       ELSE /\ pc' = "recover_relay"
            /\ is_recovery_mode_active' = TRUE
            /\ was_recovered' = TRUE
    /\ ev' = [op |-> "except"]
    /\ exc' = NoExc
    /\ LocalsDropped
    /\ UNCHANGED <<last_era_reported, previous_active_era_id, era_delay_time_start>>
    /\ UNCHANGED <<m_last_era_reported, m_last_failed_era, era_update_delayed>>
    /\ UNCHANGED <<hist, events, envVars, unitVars>>

\* the except clause of start and the entry of _recover
HandleException ==
    /\ pc = "except"
    /\ IF /\ exc.type \notin EXPECTED_NETWORK_EXCEPTIONS
          /\ exc.type = "WebSocketConnectionClosedException"
          /\ exc.msg = SocketClosedMsg
       THEN /\ pc' = "exited"
            /\ UNCHANGED <<is_recovery_mode_active, was_recovered>>
       ELSE /\ pc' = "recover_relay"
            /\ is_recovery_mode_active' = TRUE
            /\ was_recovered' = TRUE
    /\ ev' = [op |-> "except"]
    /\ exc' = NoExc
    /\ LocalsDropped
    /\ UNCHANGED <<last_era_reported, previous_active_era_id, era_delay_time_start>>
    /\ UNCHANGED <<m_last_era_reported, m_last_failed_era, era_update_delayed>>
    /\ UNCHANGED <<hist, events, envVars, unitVars>>

\* _recover: one attempt to connect the relay chain session again; a
\* create_interface that raises is tried again
ReconnectRelay ==
    /\ pc = "recover_relay"
    /\ \E connected \in BOOLEAN :
         /\ pc' = IF connected THEN "recover_para" ELSE "recover_relay"
         /\ ev' = [op |-> "reconnect_relay", connected |-> connected]
    /\ UNCHANGED <<fields, locals, metrics, hist, exc, events, envVars, unitVars>>

\* _recover: one attempt to connect the parachain session again; a
\* create_provider that raises is tried again; after it start loops back
ReconnectPara ==
    /\ pc = "recover_para"
    /\ \E connected \in BOOLEAN :
         /\ pc' = IF connected THEN "restoring" ELSE "recover_para"
         /\ is_recovery_mode_active' = ~connected
         /\ ev' = [op |-> "reconnect_para", connected |-> connected]
    /\ UNCHANGED <<m_last_era_reported, m_last_failed_era, era_update_delayed>>
    /\ UNCHANGED <<fields, locals, hist, exc, events, envVars, unitVars>>

\* ------------------------------------------------------------------------
\* Oracle._handle_era_change
\* ------------------------------------------------------------------------
\* an early return on an empty list that sets the gauge of the reported era
HandleEraChangeSetsGauge ==
    /\ pc = "handle"
    /\ \/ /\ stashAccounts = <<>>
          /\ previous_active_era_id' = active_era_id
          /\ m_last_era_reported' = active_era_id - 1
          /\ era_delay_time_start' = 0
          /\ EndOfTick
          /\ ev' = [op |-> "handle", found |-> FALSE]
          /\ active_era_id' = -1
          /\ UNCHANGED <<block, exc, events>>
       \/ /\ stashAccounts # <<>>
          /\ LET r == find_last_block(active_era_id, finHead, EraDurationInBlocks,
                                      eraAt, forkFrom)
             IN IF r.raised
                THEN /\ Raise(BlockNotFound)
                     /\ ev' = [op |-> "handle", found |-> FALSE]
                     /\ UNCHANGED <<block, events>>
                ELSE /\ block' = r.block
                     /\ pc' = "wait"
                     /\ ev' = [op |-> "handle", found |-> TRUE]
                     /\ UNCHANGED <<exc, events>>
          /\ UNCHANGED <<previous_active_era_id, era_delay_time_start,
                         active_era_id, era_update_delayed,
                         m_last_era_reported>>
       \/ \E e \in RpcFailures \cup {BlockNotFound} :
            /\ Fails(e)
            /\ ev' = [op |-> "handle", found |-> FALSE]
            /\ UNCHANGED <<block, previous_active_era_id, era_delay_time_start,
                           active_era_id, era_update_delayed,
                           m_last_era_reported>>
    /\ UNCHANGED <<last_era_reported, was_recovered>>
    /\ UNCHANGED <<finalised_head_number, block_hash_, idx>>
    /\ UNCHANGED <<m_last_failed_era, is_recovery_mode_active>>
    /\ UNCHANGED <<hist, envVars, unitVars>>

\* _get_stash_accounts, the early return on an empty list, _find_last_block
HandleEraChange ==
    /\ pc = "handle"
    /\ \/ /\ stashAccounts = <<>>
          /\ previous_active_era_id' = active_era_id
          /\ era_delay_time_start' = 0
          /\ EndOfTick
          /\ ev' = [op |-> "handle", found |-> FALSE]
          /\ active_era_id' = -1
          /\ UNCHANGED <<block, exc, events>>
       \/ /\ stashAccounts # <<>>
          /\ LET r == find_last_block(active_era_id, finHead, EraDurationInBlocks,
                                      eraAt, forkFrom)
             IN IF r.raised
                THEN /\ Raise(BlockNotFound)
                     /\ ev' = [op |-> "handle", found |-> FALSE]
                     /\ UNCHANGED <<block, events>>
                ELSE /\ block' = r.block
                     /\ pc' = "wait"
                     /\ ev' = [op |-> "handle", found |-> TRUE]
                     /\ UNCHANGED <<exc, events>>
          /\ UNCHANGED <<previous_active_era_id, era_delay_time_start,
                         active_era_id, era_update_delayed>>
       \/ \E e \in RpcFailures \cup {BlockNotFound} :
            /\ Fails(e)
            /\ ev' = [op |-> "handle", found |-> FALSE]
            /\ UNCHANGED <<block, previous_active_era_id, era_delay_time_start,
                           active_era_id, era_update_delayed>>
    /\ UNCHANGED <<last_era_reported, was_recovered>>
    /\ UNCHANGED <<finalised_head_number, block_hash_, idx>>
    /\ UNCHANGED <<m_last_era_reported, m_last_failed_era, is_recovery_mode_active>>
    /\ UNCHANGED <<hist, envVars, unitVars>>

\* the wait without its loop, the wait without its comparison
StillWaitingNever(head_number, block_number) == FALSE
HashDiffersNever(refetched, block_hash) == FALSE

\* the loop condition and the hash comparison of _wait_until_finalized
StillWaiting(head_number, block_number) == head_number < block_number
HashDiffers(refetched, block_hash) == refetched # block_hash

\* one poll of _wait_until_finalized and, once the head has reached the block,
\* the second fetch of its hash
WaitUntilFinalized ==
    /\ pc = "wait"
    /\ \/ /\ finalised_head_number' = finHead
          /\ IF StillWaiting(finHead, block[2])
             THEN /\ UNCHANGED <<pc, exc, events, block_hash_, idx, bnfEras>>
                  /\ ev' = [op |-> "wait", result |-> "sleep"]
             ELSE /\ block_hash_' = GetBlockHash(block[2], forkFrom)
                  /\ IF HashDiffers(block_hash_', block[1])
                     THEN /\ Raise(BlockNotFound)
                          /\ bnfEras' = bnfEras \cup {active_era_id}
                          /\ ev' = [op |-> "wait", result |-> "BlockNotFound"]
                          /\ UNCHANGED <<idx, events>>
                     ELSE /\ pc' = "stash"
                          /\ idx' = 1
                          /\ ev' = [op |-> "wait", result |-> "finalized"]
                          /\ UNCHANGED <<exc, events, bnfEras>>
       \/ \E e \in RpcFailures :
            /\ Fails(e)
            /\ ev' = [op |-> "wait", result |-> "raise"]
            /\ UNCHANGED <<finalised_head_number, block_hash_, idx, bnfEras>>
    /\ UNCHANGED <<active_era_id, block, sentSet, processedSet>>
    /\ UNCHANGED <<fields, metrics, envVars, unitVars>>

\* the test with a strict comparison
AlreadyReportedStrict(lr, stash, active_era) == DictGet(lr, stash, 0) > active_era - 1

\* the test of the loop over the stashes that skips a stash
AlreadyReported(lr, stash, active_era) == DictGet(lr, stash, 0) >= active_era - 1

TX_SUCCESS == 1

\* the submission that records nothing when the receipt shows a revert
SignAndSendSilentOnRevert(call, send, receipt) ==
    IF call = "revert"
    THEN [called |-> TRUE, sent |-> FALSE, outcome |-> "WillRevert",
          set_failed |-> TRUE, obs |-> << <<"tx_revert", 1>> >>, raised |-> FALSE,
          steps |-> <<"dry_run">>]
    ELSE IF call = "raise"
    THEN [called |-> TRUE, sent |-> FALSE, outcome |-> "raise",
          set_failed |-> FALSE, obs |-> << >>, raised |-> TRUE,
          steps |-> <<"dry_run">>]
    ELSE IF send = "raise"
    THEN [called |-> TRUE, sent |-> FALSE, outcome |-> "raise",
          set_failed |-> FALSE, obs |-> << >>, raised |-> TRUE,
          steps |-> <<"dry_run", "sign", "submit">>]
    ELSE IF receipt.raised
    THEN [called |-> TRUE, sent |-> TRUE, outcome |-> "raise",
          set_failed |-> FALSE, obs |-> << >>, raised |-> TRUE,
          steps |-> <<"dry_run", "sign", "submit", "receipt">>]
    ELSE IF receipt.status = TX_SUCCESS
    THEN [called |-> TRUE, sent |-> TRUE, outcome |-> "Sent",
          set_failed |-> FALSE, obs |-> << <<"tx_success", 1>> >>, raised |-> FALSE,
          steps |-> <<"dry_run", "sign", "submit", "receipt">>]
    ELSE [called |-> TRUE, sent |-> TRUE, outcome |-> "Reverted",
          set_failed |-> FALSE, obs |-> << >>, raised |-> FALSE,
          steps |-> <<"dry_run", "sign", "submit", "receipt">>]

\* the submission that goes on to send_raw_transaction after a reverted dry run
SignAndSendNoReturnOnRevert(call, send, receipt) ==
    IF call = "revert"
    THEN [called |-> TRUE, sent |-> TRUE, outcome |-> "WillRevert",
          set_failed |-> TRUE, obs |-> << <<"tx_revert", 1>> >>, raised |-> FALSE,
          steps |-> <<"dry_run", "sign", "submit">>]
    ELSE IF call = "raise"
    THEN [called |-> TRUE, sent |-> FALSE, outcome |-> "raise",
          set_failed |-> FALSE, obs |-> << >>, raised |-> TRUE,
          steps |-> <<"dry_run">>]
    ELSE IF send = "raise"
    THEN [called |-> TRUE, sent |-> FALSE, outcome |-> "raise",
          set_failed |-> FALSE, obs |-> << >>, raised |-> TRUE,
          steps |-> <<"dry_run", "sign", "submit">>]
    ELSE IF receipt.raised
    THEN [called |-> TRUE, sent |-> TRUE, outcome |-> "raise",
          set_failed |-> FALSE, obs |-> << >>, raised |-> TRUE,
          steps |-> <<"dry_run", "sign", "submit", "receipt">>]
    ELSE IF receipt.status = TX_SUCCESS
    THEN [called |-> TRUE, sent |-> TRUE, outcome |-> "Sent",
          set_failed |-> FALSE, obs |-> << <<"tx_success", 1>> >>, raised |-> FALSE,
          steps |-> <<"dry_run", "sign", "submit", "receipt">>]
    ELSE [called |-> TRUE, sent |-> TRUE, outcome |-> "Reverted",
          set_failed |-> TRUE, obs |-> << <<"tx_revert", 1>> >>, raised |-> FALSE,
          steps |-> <<"dry_run", "sign", "submit", "receipt">>]

\* Oracle._sign_and_send_to_para as a function of what the parachain answers:
\* call is the dry run (eth_call), send is send_raw_transaction, receipt is
\* the receipt awaited, or the failure of the wait for it
SignAndSendToPara(call, send, receipt) ==
    IF call = "revert"
    THEN [called |-> TRUE, sent |-> FALSE, outcome |-> "WillRevert",
          set_failed |-> TRUE, obs |-> << <<"tx_revert", 1>> >>, raised |-> FALSE,
          steps |-> <<"dry_run">>]
    ELSE IF call = "raise"
    THEN [called |-> TRUE, sent |-> FALSE, outcome |-> "raise",
          set_failed |-> FALSE, obs |-> << >>, raised |-> TRUE,
          steps |-> <<"dry_run">>]
    ELSE IF send = "raise"
    THEN [called |-> TRUE, sent |-> FALSE, outcome |-> "raise",
          set_failed |-> FALSE, obs |-> << >>, raised |-> TRUE,
          steps |-> <<"dry_run", "sign", "submit">>]
    ELSE IF receipt.raised
    THEN [called |-> TRUE, sent |-> TRUE, outcome |-> "raise",
          set_failed |-> FALSE, obs |-> << >>, raised |-> TRUE,
          steps |-> <<"dry_run", "sign", "submit", "receipt">>]
    ELSE IF receipt.status = TX_SUCCESS
    THEN [called |-> TRUE, sent |-> TRUE, outcome |-> "Sent",
          set_failed |-> FALSE, obs |-> << <<"tx_success", 1>> >>, raised |-> FALSE,
          steps |-> <<"dry_run", "sign", "submit", "receipt">>]
    ELSE [called |-> TRUE, sent |-> TRUE, outcome |-> "Reverted",
          set_failed |-> TRUE, obs |-> << <<"tx_revert", 1>> >>, raised |-> FALSE,
          steps |-> <<"dry_run", "sign", "submit", "receipt">>]

NotCalled ==
    [called |-> FALSE, sent |-> FALSE, outcome |-> "raise",
     set_failed |-> FALSE, obs |-> << >>, raised |-> TRUE, steps |-> << >>]

DebugSkip ==
    [called |-> FALSE, sent |-> FALSE, outcome |-> "Debug",
     set_failed |-> FALSE, obs |-> << >>, raised |-> FALSE, steps |-> << >>]

\* the steps one iteration of the loop over the stashes takes, in the order
\* it takes them: the report is read, the transaction is created, the
\* submission runs its steps, the balance is read, last_era_reported is set
StepsOfOne(read, create, sub, bal) ==
    <<"build_report">>
        \o (IF read = "ok" THEN <<"create_tx">> ELSE << >>)
        \o sub.steps
        \o (IF ~sub.raised THEN <<"balance">> ELSE << >>)
        \o (IF ~sub.raised /\ bal = "ok" THEN <<"update">> ELSE << >>)

\* the body of the loop that submits the transaction in debug mode too
ProcessOneDebugSends(debug, read, create, call, send, receipt, bal) ==
    LET sub == IF read = "raise" \/ create = "raise" THEN NotCalled
               ELSE SignAndSendToPara(call, send, receipt)
        raised == sub.raised \/ bal = "raise"
    IN [built |-> read = "ok", created |-> read = "ok" /\ create = "ok",
        called |-> sub.called, sent |-> sub.sent, outcome |-> sub.outcome,
        set_failed |-> sub.set_failed, obs |-> sub.obs,
        raised |-> raised, updated |-> ~raised,
        steps |-> StepsOfOne(read, create, sub, bal)]

\* the body of the loop that sets last_era_reported before the submission
ProcessOneUpdatesFirst(debug, read, create, call, send, receipt, bal) ==
    LET sub == IF read = "raise" \/ create = "raise" THEN NotCalled
               ELSE IF ~debug THEN SignAndSendToPara(call, send, receipt)
               ELSE DebugSkip
        raised == sub.raised \/ bal = "raise"
    IN [built |-> read = "ok", created |-> read = "ok" /\ create = "ok",
        called |-> sub.called, sent |-> sub.sent, outcome |-> sub.outcome,
        set_failed |-> sub.set_failed, obs |-> sub.obs,
        raised |-> raised, updated |-> ~raised,
        steps |-> <<"build_report">>
                     \o (IF ~raised THEN <<"update">> ELSE << >>)
                     \o (IF read = "ok" THEN <<"create_tx">> ELSE << >>)
                     \o sub.steps
                     \o (IF ~sub.raised THEN <<"balance">> ELSE << >>)]

\* the body of the loop over the stashes for a stash that is not skipped:
\* read is get_stash_staking_parameters, create is _create_tx, bal is the
\* _update_oracle_balance that follows the submission
ProcessOne(debug, read, create, call, send, receipt, bal) ==
    LET sub == IF read = "raise" \/ create = "raise" THEN NotCalled
               ELSE IF ~debug THEN SignAndSendToPara(call, send, receipt)
               ELSE DebugSkip
        raised == sub.raised \/ bal = "raise"
    IN [built |-> read = "ok", created |-> read = "ok" /\ create = "ok",
        called |-> sub.called, sent |-> sub.sent, outcome |-> sub.outcome,
        set_failed |-> sub.set_failed, obs |-> sub.obs,
        raised |-> raised, updated |-> ~raised,
        steps |-> StepsOfOne(read, create, sub, bal)]

RpcResults == {"ok", "raise"}
CallResults == {"ok", "revert", "raise"}
ReceiptResults ==
    {[raised |-> FALSE, status |-> 0], [raised |-> FALSE, status |-> 1],
     [raised |-> TRUE, status |-> 0]}

\* the answers of the two chains to the calls of one iteration; a call that
\* is not reached has one answer only
Answers(debug) ==
    {a \in [read : RpcResults, create : RpcResults, call : CallResults,
            send : RpcResults, receipt : ReceiptResults, bal : RpcResults] :
        LET reachCall == a.read = "ok" /\ a.create = "ok" /\ ~debug
            reachSend == reachCall /\ a.call = "ok"
            reachReceipt == reachSend /\ a.send = "ok"
            reachBal == /\ a.read = "ok" /\ a.create = "ok"
                        /\ (debug \/ a.call = "revert"
                                  \/ (reachReceipt /\ ~a.receipt.raised))
        IN /\ (a.read = "raise" => a.create = "ok")
           /\ (~reachCall => a.call = "ok")
           /\ (~reachSend => a.send = "ok")
           /\ (~reachReceipt => a.receipt = [raised |-> FALSE, status |-> 1])
           /\ (~reachBal => a.bal = "ok")}

\* a loop that goes on with the next stash when the calls for one fail
ProcessStashSkipsFailed ==
    /\ pc = "stash"
    /\ idx <= Len(stashAccounts)
    /\ LET stash == stashAccounts[idx]
           era == active_era_id - 1
       IN IF AlreadyReported(last_era_reported, stash, active_era_id)
          THEN /\ idx' = idx + 1
               /\ ev' = [op |-> "stash", stash |-> stash, era |-> era,
                         skipped |-> TRUE, built |-> FALSE, created |-> FALSE,
                         called |-> FALSE, sent |-> FALSE, outcome |-> "skip",
                         obs |-> << >>, raised |-> FALSE, updated |-> FALSE,
                         steps |-> << >>, block |-> block]
               /\ UNCHANGED <<last_era_reported, m_last_failed_era, onchain,
                              hist, pc, exc, events>>
          ELSE \E a \in Answers(debug_mode) :
                 LET r == ProcessOne(debug_mode, a.read, a.create, a.call, a.send,
                                     a.receipt, a.bal)
                 IN /\ ev' = [op |-> "stash", stash |-> stash, era |-> era,
                              skipped |-> FALSE, built |-> r.built, created |-> r.created,
                              called |-> r.called, sent |-> r.sent, outcome |-> r.outcome,
                              obs |-> r.obs, raised |-> r.raised, updated |-> r.updated,
                              steps |-> r.steps, block |-> block,
                              call |-> a.call, receipt |-> a.receipt]
                    /\ m_last_failed_era' = IF r.set_failed THEN era ELSE m_last_failed_era
                    /\ sentSet' = IF r.sent THEN sentSet \cup {<<stash, era>>} ELSE sentSet
                    /\ processedSet' = IF r.outcome \in {"Sent", "Reverted", "WillRevert"}
                                       THEN processedSet \cup {<<stash, era>>} ELSE processedSet
                    /\ onchain' = IF r.outcome = "Sent"
                                  THEN [onchain EXCEPT ![stash] = [era |-> era, reported |-> TRUE]]
                                  ELSE onchain
                    /\ UNCHANGED bnfEras
                    /\ IF r.raised
                       THEN /\ events < MaxEvents
                            /\ events' = events + 1
                            /\ idx' = idx + 1
                            /\ UNCHANGED <<last_era_reported, pc, exc>>
                       ELSE /\ last_era_reported' = DictSet(last_era_reported, stash, era)
                            /\ idx' = idx + 1
                            /\ UNCHANGED <<pc, exc, events>>
    /\ UNCHANGED <<previous_active_era_id, was_recovered, era_delay_time_start>>
    /\ UNCHANGED <<active_era_id, block, finalised_head_number, block_hash_>>
    /\ UNCHANGED <<m_last_era_reported, is_recovery_mode_active, era_update_delayed>>
    /\ UNCHANGED <<eraAt, finHead, forkFrom, stashAccounts, debug_mode, unitVars>>

\* one iteration of the loop over the stashes
ProcessStash ==
    /\ pc = "stash"
    /\ idx <= Len(stashAccounts)
    /\ LET stash == stashAccounts[idx]
           era == active_era_id - 1
       IN IF AlreadyReported(last_era_reported, stash, active_era_id)
          THEN /\ idx' = idx + 1
               /\ ev' = [op |-> "stash", stash |-> stash, era |-> era,
                         skipped |-> TRUE, built |-> FALSE, created |-> FALSE,
                         called |-> FALSE, sent |-> FALSE, outcome |-> "skip",
                         obs |-> << >>, raised |-> FALSE, updated |-> FALSE,
                         steps |-> << >>, block |-> block]
               /\ UNCHANGED <<last_era_reported, m_last_failed_era, onchain,
                              hist, pc, exc, events>>
          ELSE \E a \in Answers(debug_mode) :
                 LET r == ProcessOne(debug_mode, a.read, a.create, a.call, a.send,
                                     a.receipt, a.bal)
                 IN /\ ev' = [op |-> "stash", stash |-> stash, era |-> era,
                              skipped |-> FALSE, built |-> r.built, created |-> r.created,
                              called |-> r.called, sent |-> r.sent, outcome |-> r.outcome,
                              obs |-> r.obs, raised |-> r.raised, updated |-> r.updated,
                              steps |-> r.steps, block |-> block,
                              call |-> a.call, receipt |-> a.receipt]
                    /\ m_last_failed_era' = IF r.set_failed THEN era ELSE m_last_failed_era
                    /\ sentSet' = IF r.sent THEN sentSet \cup {<<stash, era>>} ELSE sentSet
                    /\ processedSet' = IF r.outcome \in {"Sent", "Reverted", "WillRevert"}
                                       THEN processedSet \cup {<<stash, era>>} ELSE processedSet
                    /\ onchain' = IF r.outcome = "Sent"
                                  THEN [onchain EXCEPT ![stash] = [era |-> era, reported |-> TRUE]]
                                  ELSE onchain
                    /\ UNCHANGED bnfEras
                    /\ IF r.raised
                       THEN /\ \E e \in RpcFailures : Fails(e)
                            /\ UNCHANGED <<last_era_reported, idx>>
                       ELSE /\ last_era_reported' = DictSet(last_era_reported, stash, era)
                            /\ idx' = idx + 1
                            /\ UNCHANGED <<pc, exc, events>>
    /\ UNCHANGED <<previous_active_era_id, was_recovered, era_delay_time_start>>
    /\ UNCHANGED <<active_era_id, block, finalised_head_number, block_hash_>>
    /\ UNCHANGED <<m_last_era_reported, is_recovery_mode_active, era_update_delayed>>
    /\ UNCHANGED <<eraAt, finHead, forkFrom, stashAccounts, debug_mode, unitVars>>

\* the end of a run that does not record the era as handled
FinishEraChangeKeepsPrevious ==
    /\ pc = "stash"
    /\ idx > Len(stashAccounts)
    /\ m_last_era_reported' = active_era_id - 1
    /\ previous_active_era_id' = previous_active_era_id
    /\ era_delay_time_start' = 0
    /\ EndOfTick
    /\ ev' = [op |-> "finish", era |-> active_era_id]
    /\ bnfEras' = {e \in bnfEras : e > active_era_id}
    /\ LocalsDropped
    /\ UNCHANGED <<last_era_reported, was_recovered>>
    /\ UNCHANGED <<m_last_failed_era, is_recovery_mode_active>>
    /\ UNCHANGED <<sentSet, processedSet, exc, events, envVars, unitVars>>

\* the end of _handle_era_change after the last stash
FinishEraChange ==
    /\ pc = "stash"
    /\ idx > Len(stashAccounts)
    /\ m_last_era_reported' = active_era_id - 1
    /\ previous_active_era_id' = active_era_id
    /\ era_delay_time_start' = 0
    /\ EndOfTick
    /\ ev' = [op |-> "finish", era |-> active_era_id]
    /\ bnfEras' = {e \in bnfEras : e > active_era_id}
    /\ LocalsDropped
    /\ UNCHANGED <<last_era_reported, was_recovered>>
    /\ UNCHANGED <<m_last_failed_era, is_recovery_mode_active>>
    /\ UNCHANGED <<sentSet, processedSet, exc, events, envVars, unitVars>>

\* ------------------------------------------------------------------------
\* The controller with its environment
\* ------------------------------------------------------------------------
Next ==
    \/ NewBlock
    \/ Finalize
    \/ SwitchNode
    \/ RestoreState
    \/ Tick
    \/ ShutdownAfterTimeout
    \/ HandleException
    \/ ReconnectRelay
    \/ ReconnectPara
    \/ HandleEraChange
    \/ WaitUntilFinalized
    \/ ProcessStash
    \/ FinishEraChange

Spec == Init /\ [][Next]_vars

\* ------------------------------------------------------------------------
\* The controller when no call to a node fails and the service is scheduled
\* ------------------------------------------------------------------------
\* a step in which a call to a node fails, or an attempt to connect does
RpcFailure ==
    \/ events' = events + 1 /\ exc' # exc
    \/ ev'.op \in {"reconnect_relay", "reconnect_para"} /\ ~ev'.connected

\* the next step of the service, which is one sequential program
ControllerStep ==
    \/ RestoreState
    \/ Tick
    \/ ShutdownAfterTimeout
    \/ HandleException
    \/ ReconnectRelay
    \/ ReconnectPara
    \/ HandleEraChange
    \/ WaitUntilFinalized
    \/ ProcessStash
    \/ FinishEraChange

NextLive ==
    \/ NewBlock
    \/ Finalize
    \/ SwitchNode
    \/ RestoreState /\ ~RpcFailure
    \/ Tick /\ ~RpcFailure
    \/ ShutdownAfterTimeout /\ ~RpcFailure
    \/ HandleException /\ ~RpcFailure
    \/ ReconnectRelay /\ ~RpcFailure
    \/ ReconnectPara /\ ~RpcFailure
    \/ HandleEraChange /\ ~RpcFailure
    \/ WaitUntilFinalized /\ ~RpcFailure
    \/ ProcessStash /\ ~RpcFailure
    \/ FinishEraChange /\ ~RpcFailure

\* the service takes its next step as long as it has not exited; the relay
\* chain finalizes the blocks it has produced
SpecLive ==
    /\ Init
    /\ [][NextLive]_vars
    /\ WF_vars(ControllerStep /\ ~RpcFailure)
    /\ WF_vars(Finalize)

\* ------------------------------------------------------------------------
\* Oracle._find_last_block on its own, over every head, window and era function
\* ------------------------------------------------------------------------
OracleOff ==
    /\ EnvFixedForUnits
    /\ OracleFresh
    /\ pc = "off"

InitFLB ==
    /\ OracleOff
    /\ stashAccounts = <<>>
    /\ onchain = EmptyDict
    /\ last_era_reported = EmptyDict
    /\ rst = RstOff
    /\ rp = RpOff
    /\ tk = TkOff
    /\ mn = MnOff
    /\ \E h \in 0..MaxHead, d \in 1..MaxDur :
         \E f \in [1..(h + 1) -> (TargetEra - 1)..(TargetEra + 1)] :
           flb = [pc |-> "loop", current |-> h, dur |-> d, era_id |-> TargetEra,
                  eras |-> f, st |-> FindInit(h, d)]

\* one iteration of the loop of _find_last_block
FLBIterate ==
    /\ flb.pc = "loop"
    /\ ~flb.st.raised
    /\ flb.st.start <= flb.st.end
    /\ flb' = [flb EXCEPT !.st = FindIter(flb.st, flb.era_id, flb.eras, NoFork)]
    /\ UNCHANGED <<envVars, oracleVars, rst, rp, tk, mn>>

\* the loop is left: the search returns or BlockNotFound is raised
FLBReturn ==
    /\ flb.pc = "loop"
    /\ flb.st.raised \/ flb.st.start > flb.st.end
    /\ flb' = [flb EXCEPT !.pc = IF flb.st.raised THEN "raised" ELSE "done"]
    /\ UNCHANGED <<envVars, oracleVars, rst, rp, tk, mn>>

NextFLB == FLBIterate \/ FLBReturn

SpecFLB == InitFLB /\ [][NextFLB]_vars

\* the search takes its next step as long as its loop has not ended
SpecFLBFair == SpecFLB /\ WF_vars(NextFLB)

\* ------------------------------------------------------------------------
\* Oracle._restore_state run again and again against one OracleMaster view
\* ------------------------------------------------------------------------
Dicts == UNION {[S -> (-1)..MaxViewEra] : S \in SUBSET Stashes}

InitRestore ==
    /\ OracleOff
    /\ flb = FlbOff
    /\ rp = RpOff
    /\ tk = TkOff
    /\ mn = MnOff
    /\ stashAccounts \in StashLists
    /\ onchain \in [Range(stashAccounts) -> [era : 0..MaxViewEra, reported : BOOLEAN]]
    /\ last_era_reported \in Dicts
    /\ rst = [pc |-> "run", runs |-> 0, returned |-> FALSE, first |-> EmptyDict,
              before |-> last_era_reported]

\* one run of _restore_state: it returns, or the call for stash k + 1 raises
RestoreRun ==
    /\ rst.pc = "run"
    /\ rst.runs < MaxRuns
    /\ \E k \in 0..Len(stashAccounts), returns \in BOOLEAN :
         /\ returns => k = Len(stashAccounts)
         /\ last_era_reported' = RestoreFirst(last_era_reported, stashAccounts, onchain, k)
         /\ rst' = [rst EXCEPT
                      !.runs = rst.runs + 1,
                      !.returned = rst.returned \/ returns,
                      !.first = IF returns /\ ~rst.returned
                                THEN last_era_reported' ELSE rst.first]
    /\ UNCHANGED <<envVars, flb, rp, tk, mn>>
    /\ UNCHANGED <<previous_active_era_id, was_recovered, era_delay_time_start>>
    /\ UNCHANGED <<locals, metrics, hist, pc, exc, ev, events>>

NextRestore == RestoreRun

SpecRestore == InitRestore /\ [][NextRestore]_vars

\* ------------------------------------------------------------------------
\* The report of one stash built from every chain state and handed to
\* reportRelay
\* ------------------------------------------------------------------------
Members(stash) == {{}, {Ss58Address(stash)}, {Ss58Address("c1")}}
Chunks == [value : 1..MaxBalance, era : 0..1]
Unlockings == UNION {[1..n -> Chunks] : n \in 0..MaxChunks}
NoLedger ==
    [some |-> FALSE, active |-> 0, total |-> 0, unlocking |-> << >>,
     claimedRewards |-> << >>]
Ledgers ==
    [some : {TRUE}, active : 0..MaxBalance, total : 0..MaxBalance,
     unlocking : Unlockings, claimedRewards : {<< >>, <<0>>}] \cup {NoLedger}
ChainStates(stash) ==
    [account : BOOLEAN, free : 0..MaxBalance,
     nominators : Members(stash), validators : Members(stash),
     bonded : {None, Ss58Address(stash), Ss58Address("c1")},
     ledger : Ledgers, spans : NoSpans..MaxSpans]

InitReport ==
    /\ OracleOff
    /\ stashAccounts = <<>>
    /\ onchain = EmptyDict
    /\ last_era_reported = EmptyDict
    /\ flb = FlbOff
    /\ rst = RstOff
    /\ tk = TkOff
    /\ mn = MnOff
    /\ \E cs \in ChainStates("s1"), e \in {1} :
         rp = [pc |-> "read", stash |-> "s1", cs |-> cs, era_id |-> e,
               report |-> NoReport, tx |-> create_tx(e, NoReport)]

\* get_stash_staking_parameters returns the report or raises
RPRead ==
    /\ rp.pc = "read"
    /\ \E fail \in 0..6 :
         LET r == get_stash_staking_parameters(rp.stash, rp.cs, fail)
         IN rp' = [rp EXCEPT !.pc = IF r.raised THEN "raised" ELSE "create",
                             !.report = r.report]
    /\ UNCHANGED <<envVars, oracleVars, flb, rst, tk, mn>>

\* _create_tx builds the call of reportRelay or raises
RPCreateTx ==
    /\ rp.pc = "create"
    /\ \E raises \in BOOLEAN :
         rp' = IF raises THEN [rp EXCEPT !.pc = "raised"]
               ELSE [rp EXCEPT !.pc = "tx", !.tx = create_tx(rp.era_id, rp.report)]
    /\ UNCHANGED <<envVars, oracleVars, flb, rst, tk, mn>>

NextReport == RPRead \/ RPCreateTx

SpecReport == InitReport /\ [][NextReport]_vars

\* ------------------------------------------------------------------------
\* The inner loop of Oracle.start against a clock: the cross-check with
\* OracleMaster, the time of era immutability, the delay shutdown
\* ------------------------------------------------------------------------
\* the comparison with a delay equal to ERA_DELAY_TIME taken as exceeded
DelayExceededOrEqual(era_delay_time_limit, era_delay_time) ==
    era_delay_time_limit <= era_delay_time

\* the comparison of _assert_era_with_oracle_master
DelayExceeded(era_delay_time_limit, era_delay_time) ==
    era_delay_time_limit < era_delay_time

\* the comparison with a time equal to the delay allowed taken as exceeded
ImmutabilityExceededOrEqual(time_of_era_immutability, possible_era_update_delay) ==
    time_of_era_immutability >= possible_era_update_delay

\* the comparison at the end of an iteration
ImmutabilityExceeded(time_of_era_immutability, possible_era_update_delay) ==
    time_of_era_immutability > possible_era_update_delay

\* _assert_era_with_oracle_master once getCurrentEraId has answered: the
\* fields era_delay_time_start and era_delay_time after it and whether it
\* calls _shutdown_after_timeout; now is the time its time.time() returns
AssertEraWithOracleMaster(active_era, oracle_master_era_id, start, delay, limit, now) ==
    IF active_era # oracle_master_era_id
    THEN IF start = 0
         THEN [era_delay_time_start |-> now, era_delay_time |-> delay,
               shutdown |-> FALSE]
         ELSE [era_delay_time_start |-> start, era_delay_time |-> now - start,
               shutdown |-> DelayExceeded(limit, now - start)]
    ELSE [era_delay_time_start |-> start, era_delay_time |-> delay,
          shutdown |-> FALSE]

NoTick == [op |-> "none"]

InitTick ==
    /\ OracleOff
    /\ stashAccounts = <<>>
    /\ onchain = EmptyDict
    /\ last_era_reported = EmptyDict
    /\ flb = FlbOff
    /\ rst = RstOff
    /\ rp = RpOff
    /\ mn = MnOff
    /\ \E limit \in 0..MaxDelay, possible \in 2..(MaxDelay + 1) :
         tk = [pc |-> "tick", now |-> 1, relay_era |-> 0,
               era_delay_time_limit |-> limit,
               possible_era_update_delay |-> possible,
               frequency_of_requests |-> 1,
               era_delay_time_start |-> 0, era_delay_time |-> 0,
               time_of_era_immutability |-> 0,
               previous_active_era_id |-> -1,
               era_update_delayed |-> FALSE,
               agreed_since_start |-> FALSE,
               last |-> NoTick]

\* one iteration of the inner loop that raises nothing: the relay era read
\* is the era read before or the next one, OracleMaster answers that era or
\* the one before, d is the time that passes before the cross-check reads
\* the clock, h the time _handle_era_change takes
\* (history: agreed_since_start tells whether the two eras were equal in
\* a tick since era_delay_time_start was recorded)
TimedTick ==
    /\ tk.pc = "tick"
    /\ \E active \in {tk.relay_era, tk.relay_era + 1},
          agree \in BOOLEAN, d \in 0..MaxStep, h \in 0..MaxStep :
         LET time_start == tk.now
             check_time == tk.now + d
             a == AssertEraWithOracleMaster(
                      active, IF agree THEN active ELSE active - 1,
                      tk.era_delay_time_start, tk.era_delay_time,
                      tk.era_delay_time_limit, check_time)
             new_era == IsNewEra(active, tk.previous_active_era_id)
             time_end == check_time + (IF new_era THEN h ELSE 0)
                            + tk.frequency_of_requests
             immutability == (IF new_era THEN 0 ELSE tk.time_of_era_immutability)
                                + time_end - (IF new_era THEN check_time ELSE time_start)
             late == ImmutabilityExceeded(immutability, tk.possible_era_update_delay)
             seen == [op |-> "tick", active |-> active, disagree |-> ~agree,
                      new_era |-> new_era /\ ~a.shutdown,
                      start_before |-> tk.era_delay_time_start,
                      start_checked |-> a.era_delay_time_start,
                      check_time |-> check_time,
                      immutability_before |-> tk.time_of_era_immutability,
                      elapsed |-> time_end - (IF new_era THEN check_time ELSE time_start),
                      by_cross_check |-> a.shutdown,
                      by_immutability |-> ~a.shutdown /\ late]
         IN /\ active <= MaxTickEra
            /\ time_end <= MaxTime
            /\ tk' = IF a.shutdown
                     THEN [tk EXCEPT !.pc = "shutdown", !.now = check_time,
                                     !.relay_era = active,
                                     !.era_delay_time_start = a.era_delay_time_start,
                                     !.era_delay_time = a.era_delay_time,
                                     !.era_update_delayed = TRUE,
                                     !.last = seen]
                     ELSE [tk EXCEPT !.pc = IF late THEN "shutdown" ELSE "tick",
                                     !.now = time_end,
                                     !.relay_era = active,
                                     !.era_delay_time_start =
                                         IF new_era THEN 0 ELSE a.era_delay_time_start,
                                     !.era_delay_time =
                                         IF new_era THEN 0 ELSE a.era_delay_time,
                                     !.time_of_era_immutability = immutability,
                                     !.previous_active_era_id =
                                         IF new_era THEN active ELSE @,
                                     !.era_update_delayed = late,
                                     !.agreed_since_start =
                                         IF new_era \/ tk.era_delay_time_start = 0
                                         THEN FALSE ELSE @ \/ agree,
                                     !.last = seen]
    /\ UNCHANGED <<envVars, oracleVars, flb, rst, rp, mn>>

\* an iteration in which a call raises: the fields are kept, start recovers
\* the connections, restores the state and enters the inner loop again
TimedRaise ==
    /\ tk.pc = "tick"
    /\ tk.now < MaxTime
    /\ tk' = [tk EXCEPT !.now = @ + 1, !.last = [op |-> "raise"]]
    /\ UNCHANGED <<envVars, oracleVars, flb, rst, rp, mn>>

\* _shutdown_after_timeout after its sleep
TimedShutdown ==
    /\ tk.pc = "shutdown"
    /\ tk' = [tk EXCEPT !.pc = "exited", !.last = [op |-> "exit"]]
    /\ UNCHANGED <<envVars, oracleVars, flb, rst, rp, mn>>

NextTick == TimedTick \/ TimedRaise \/ TimedShutdown

SpecTick == InitTick /\ [][NextTick]_vars

\* ------------------------------------------------------------------------
\* The process: main(), ServiceParameters.__init__ from the creation of the
\* sessions on, the ABI check, the signals and the exit status
\* ------------------------------------------------------------------------
MAX_ATTEMPTS_TO_RECONNECT == 20

\* the argument of sys.exit: nothing, an integer or another object
ExitNone == [kind |-> "none", int |-> 0, str |-> <<>>]
ExitStr(text) == [kind |-> "str", int |-> 0, str |-> text]

\* the exit status the interpreter gives a SystemExit that nothing catches:
\* 0 for None, the integer itself, 1 for any other object, which is printed
ExitStatus(arg) ==
    IF arg.kind = "none" THEN 0
    ELSE IF arg.kind = "int" THEN arg.int
    ELSE 1

\* stop_signal_handler: the argument it gives sys.exit
stop_signal_handler(sig) == ExitStr(<<"Receiving a signal: ", sig>>)

\* the except clause of main: the argument it gives sys.exit
StartupFailure(exc_type) == ExitStr(<<"An exception occurred: ", exc_type>>)

Signals == {"SIGINT", "SIGTERM"}

OracleMasterMethods ==
    {"reportRelay", "getStashAccounts", "getCurrentEraId", "isReportedLastEra"}

\* what a call() of the ABI check may do: return, raise the ValueError of a
\* call that reverts, raise another exception
AbiCallOutcomes == {"ok", "ValueError", "ConnectionClosedError"}

AbiPassed == "passed"

\* ABIChecker.check_oracle_master_contract_abi: AbiPassed when it returns,
\* otherwise the exception that leaves it; ABIFunctionNotFound is not a
\* ValueError
check_oracle_master_contract_abi(abi, dry_run, stash_call) ==
    IF "reportRelay" \notin abi THEN "ABIFunctionNotFound"
    ELSE IF dry_run = "ValueError" THEN AbiPassed
    ELSE IF dry_run # "ok" THEN dry_run
    ELSE IF "getStashAccounts" \notin abi THEN "ABIFunctionNotFound"
    ELSE IF stash_call = "ValueError" THEN AbiPassed
    ELSE IF stash_call # "ok" THEN stash_call
    ELSE AbiPassed

NoExit == [cause |-> "none", arg |-> ExitNone, code |-> -1]

\* sys.exit(arg) that nothing catches
SysExit(cause, arg) == [cause |-> cause, arg |-> arg, code |-> ExitStatus(arg)]

InitMain ==
    /\ OracleOff
    /\ stashAccounts = <<>>
    /\ onchain = EmptyDict
    /\ last_era_reported = EmptyDict
    /\ flb = FlbOff
    /\ rst = RstOff
    /\ rp = RpOff
    /\ tk = TkOff
    /\ \E n \in 1..MaxUrls, para \in BOOLEAN, relay \in BOOLEAN,
          abi \in SUBSET OracleMasterMethods :
         mn = [pc |-> "provider", urls |-> n, url |-> 1,
               para_accepts |-> para, relay_accepts |-> relay,
               abi |-> abi, calls |-> 0, connects |-> 0,
               era_update_delayed |-> FALSE, abi_checked |-> FALSE,
               exit |-> NoExit]

\* the URL create_provider and create_interface try next: the next of the
\* list, the first again after the sleep that follows the last
NextUrl(url, urls) == IF url < urls THEN url + 1 ELSE 1

\* _create_provider_forcibly: its first pass calls utils.create_provider,
\* which tries one URL in this step. create_provider returns only a
\* connected Web3 object and catches every Exception of a try, so the pass
\* never ends without a connection and no second pass is made
CreateProviderForcibly ==
    /\ mn.pc = "provider"
    /\ mn.connects < MaxConnects
    /\ \E connected \in {b \in BOOLEAN : b => mn.para_accepts} :
         mn' = IF connected
               THEN [mn EXCEPT !.pc = "interface", !.url = 1,
                               !.calls = 0, !.connects = 0]
               ELSE [mn EXCEPT !.url = NextUrl(@, mn.urls),
                               !.calls = 1, !.connects = @ + 1]
    /\ UNCHANGED <<envVars, oracleVars, flb, rst, rp, tk>>

\* _create_interface_forcibly: the same with utils.create_interface, which
\* raises from a failed try only a ValueError for a type registry preset
\* that is not supported; it is not caught before main
CreateInterfaceForcibly ==
    /\ mn.pc = "interface"
    /\ mn.connects < MaxConnects
    /\ \E outcome \in {"connected", "refused", "unsupported"} :
         /\ outcome = "connected" => mn.relay_accepts
         /\ mn' = IF outcome = "connected"
                  THEN [mn EXCEPT !.pc = "abi", !.url = 1,
                                  !.calls = 0, !.connects = 0]
                  ELSE IF outcome = "refused"
                  THEN [mn EXCEPT !.url = NextUrl(@, mn.urls),
                                  !.calls = 1, !.connects = @ + 1]
                  ELSE [mn EXCEPT !.pc = "exited", !.calls = 1,
                                  !.connects = @ + 1,
                                  !.exit = SysExit("startup", StartupFailure("ValueError"))]
    /\ UNCHANGED <<envVars, oracleVars, flb, rst, rp, tk>>

\* the ABI check, the last step of ServiceParameters.__init__; an exception
\* that leaves it reaches the except clause of main, otherwise the Oracle is
\* created and started
CheckAbi ==
    /\ mn.pc = "abi"
    /\ \E dry_run \in AbiCallOutcomes, stash_call \in AbiCallOutcomes :
         LET result == check_oracle_master_contract_abi(mn.abi, dry_run, stash_call)
         IN mn' = IF result = AbiPassed
                  THEN [mn EXCEPT !.pc = "running", !.abi_checked = TRUE]
                  ELSE [mn EXCEPT !.pc = "exited", !.abi_checked = TRUE,
                                  !.exit = SysExit("startup", StartupFailure(result))]
    /\ UNCHANGED <<envVars, oracleVars, flb, rst, rp, tk>>

\* Oracle.start decides to shut down: _shutdown_after_timeout up to its sleep
DelayShutdown ==
    /\ mn.pc = "running"
    /\ mn' = [mn EXCEPT !.pc = "delayed", !.era_update_delayed = TRUE]
    /\ UNCHANGED <<envVars, oracleVars, flb, rst, rp, tk>>

\* _shutdown_after_timeout after its sleep: os.kill(os.getpid(), SIGINT),
\* which runs stop_signal_handler
SelfInterrupt ==
    /\ mn.pc = "delayed"
    /\ mn' = [mn EXCEPT !.pc = "exited",
                        !.exit = SysExit("signal", stop_signal_handler("SIGINT"))]
    /\ UNCHANGED <<envVars, oracleVars, flb, rst, rp, tk>>

\* SIGINT or SIGTERM reaches the process: stop_signal_handler raises a
\* SystemExit that no except clause of main or start catches
ReceiveSignal ==
    /\ mn.pc \in {"provider", "interface", "abi", "running", "delayed"}
    /\ \E sig \in Signals :
         mn' = [mn EXCEPT !.pc = "exited",
                         !.exit = SysExit("signal", stop_signal_handler(sig))]
    /\ UNCHANGED <<envVars, oracleVars, flb, rst, rp, tk>>

NextMain ==
    \/ CreateProviderForcibly
    \/ CreateInterfaceForcibly
    \/ CheckAbi
    \/ DelayShutdown
    \/ SelfInterrupt
    \/ ReceiveSignal

SpecMain == InitMain /\ [][NextMain]_vars

\* ------------------------------------------------------------------------
\* Properties
\* ------------------------------------------------------------------------
\* the step is one iteration of the loop over the stashes
StashStep ==
    /\ pc = "stash"
    /\ idx <= Len(stashAccounts)
    /\ (idx' # idx \/ pc' # pc)

\* C1: at most one eth_sendRawTransaction of reportRelay(E-1, _) is issued per
\* stash for each detected era E: a step of the loop over the stashes never
\* submits a transaction for a (stash, era) pair that already has one.
C1_AtMostOneSubmission ==
    [][(StashStep /\ ev'.sent) => <<ev'.stash, ev'.era>> \notin sentSet]_vars

\* C2: every report built for era E-1 is read at the last block of era E-1:
\* the active era at the block is E-1 and every later block has an active
\* era >= E.
C2_ReportReadAtLastBlock ==
    (ev.op = "stash" /\ ev.built) =>
        /\ eraAt[ev.block[2] + 1] = ev.era
        /\ \A m \in (ev.block[2] + 1)..HeadNumber : eraAt[m + 1] >= ev.era + 1

\* C3: the loop over the stashes is entered, and a report is built, only
\* after the finalized head number read by the wait is >= the number of the
\* chosen block and the hash fetched again for that number equals the hash
\* found by the search.
C3_NoReportBeforeFinalized ==
    [][(pc' = "stash" \/ (StashStep /\ ev'.built)) =>
          /\ finalised_head_number' >= block'[2]
          /\ block_hash_' = block'[1]]_vars

\* the wait has let a block through and a report was built from it
C3_Witness ==
    /\ ev.op = "stash"
    /\ ev.built
    /\ pc = "stash"
    /\ block_hash_ = block[1]
    /\ finalised_head_number >= block[2]
    /\ block[2] >= 1

\* max(0, head - ERA_DURATION_IN_BLOCKS)
WindowLow(head, dur) == IF head - dur > 0 THEN head - dur ELSE 0

\* f(n) = E if n >= T else E - 1
IsStepAt(eras, E, T) ==
    \A n \in 0..(Len(eras) - 1) : eras[n + 1] = IF n >= T THEN E ELSE E - 1

\* C4: for the step era function with the transition at block T and
\* low < T <= head, the search returns (T - 1, hash(T - 1)).
C4_StepSearchFindsLastBlock ==
    flb.pc \in {"done", "raised"} =>
        \A T \in 1..flb.current :
            (IsStepAt(flb.eras, flb.era_id, T) /\ WindowLow(flb.current, flb.dur) < T) =>
                /\ flb.pc = "done"
                /\ flb.st.block = <<GetBlockHash(T - 1, NoFork), T - 1>>

\* a search over a step function whose window starts above block 0 and
\* holds the transition away from its ends has returned
C4_Witness ==
    /\ flb.pc = "done"
    /\ \E T \in 1..flb.current :
         /\ IsStepAt(flb.eras, flb.era_id, T)
         /\ WindowLow(flb.current, flb.dur) > 0
         /\ WindowLow(flb.current, flb.dur) + 1 < T
         /\ T < flb.current

\* C5: once submit_report has returned Sent, Reverted or WillRevert for a
\* stash and a detected era E, LastReported of the stash is E-1 and no report
\* for era E-1 is built for the stash again.
C5_ProcessedOnce ==
    [][StashStep =>
          /\ (ev'.outcome \in {"Sent", "Reverted", "WillRevert"} =>
                /\ ev'.stash \in DOMAIN last_era_reported'
                /\ last_era_reported'[ev'.stash] = ev'.era)
          /\ (ev'.built => <<ev'.stash, ev'.era>> \notin processedSet)]_vars

C7_BlockNotFoundRetried ==
    [][/\ (/\ pc = "wait"
           /\ pc' # "wait"
           /\ block_hash_' # << >>
           /\ block_hash_' # block[1]) =>
              /\ pc' = "except"
              /\ exc' = BlockNotFound
              /\ active_era_id \in bnfEras'
              /\ last_era_reported' = last_era_reported
              /\ previous_active_era_id' = previous_active_era_id
              /\ sentSet' = sentSet
              /\ processedSet' = processedSet
       /\ (pc = "except" /\ exc = BlockNotFound /\ pc' # pc) => pc' = "recover_relay"
       /\ (/\ pc = "idle"
           /\ ev'.op = "tick"
           /\ ev'.era \in bnfEras
           /\ ev' # ev) =>
              /\ pc' = "handle"
              /\ active_era_id' = ev'.era]_vars

\* the reporting for an era is in its finalization wait again after that
\* wait had raised BlockNotFound for the same era
C7_Witness ==
    /\ pc = "wait"
    /\ active_era_id \in bnfEras
    /\ was_recovered

\* C8: a stash whose LastReported is >= E-1 is skipped: no report is built,
\* no transaction is created or submitted, LastReported is unchanged.
C8_ReportedStashSkipped ==
    [][(/\ StashStep
        /\ stashAccounts[idx] \in DOMAIN last_era_reported
        /\ last_era_reported[stashAccounts[idx]] >= active_era_id - 1) =>
          /\ ~ev'.built
          /\ ~ev'.created
          /\ ~ev'.called
          /\ ~ev'.sent
          /\ last_era_reported' = last_era_reported
          /\ sentSet' = sentSet
          /\ onchain' = onchain]_vars

\* a stash whose LastReported is exactly E-1 was skipped
C8_Witness ==
    /\ ev.op = "stash"
    /\ ev.skipped
    /\ ev.stash \in DOMAIN last_era_reported
    /\ last_era_reported[ev.stash] = ev.era

\* C9: after a completed restore LastReported[s] is era when
\* isReportedLastEra returns (era, true) and era - 1 when it returns
\* (era, false), for every stash of getStashAccounts().
C9_RestoredFromOracleMaster ==
    (ev.op = "restore" /\ ev.done) =>
        \A s \in Range(stashAccounts) :
            /\ s \in DOMAIN last_era_reported
            /\ last_era_reported[s] =
                 IF onchain[s].reported THEN onchain[s].era ELSE onchain[s].era - 1

\* a restore has completed for a reported and a not reported stash
C9_Witness ==
    /\ ev.op = "restore"
    /\ ev.done
    /\ \E s, t \in Range(stashAccounts) :
         /\ onchain[s].reported
         /\ ~onchain[t].reported

\* C10: after the first completed run of restore_state, every further run
\* against the same OracleMaster view leaves LastReported as that run left it.
C10_RestoreIdempotent ==
    (rst.pc = "run" /\ rst.returned) => last_era_reported = rst.first

\* restore_state has run three times and its first run changed LastReported
C10_Witness ==
    /\ rst.pc = "run"
    /\ rst.returned
    /\ rst.runs >= 3
    /\ rst.first # rst.before
    /\ Len(stashAccounts) = 2

\* C11: for a stash with no Staking.Bonded entry at the pinned block the
\* report returned has controllerAccount = stashAccount, stakeStatus = 3,
\* activeBalance = totalBalance = 0, empty unlocking, empty claimedRewards,
\* slashingSpans = 0 and stashBalance = System.Account.data.free, whatever
\* the membership of the stash in Staking.Nominators or Session.Validators.
C11_UnbondedReport ==
    (rp.pc \in {"create", "tx"} /\ rp.cs.bonded = None) =>
        rp.report = [stashAccount      |-> rp.stash,
                     controllerAccount |-> rp.stash,
                     stakeStatus       |-> 3,
                     activeBalance     |-> 0,
                     totalBalance      |-> 0,
                     unlocking         |-> << >>,
                     claimedRewards    |-> << >>,
                     stashBalance      |-> rp.cs.free,
                     slashingSpans     |-> 0]

\* the report of an unbonded stash that is a validator with a free balance
\* was returned
C11_Witness ==
    /\ rp.pc = "create"
    /\ rp.cs.bonded = None
    /\ Ss58Address(rp.stash) \in rp.cs.validators
    /\ rp.cs.free > 0

\* C12: claimedRewards of every report returned and of every report handed
\* to reportRelay is the empty list, also when the ledger stores claimed
\* rewards.
C12_ClaimedRewardsEmpty ==
    /\ rp.pc \in {"create", "tx"} => rp.report.claimedRewards = << >>
    /\ rp.pc = "tx" => rp.tx.report.claimedRewards = << >>

\* a report built from a ledger with stored claimed rewards was handed to
\* reportRelay
C12_Witness ==
    /\ rp.pc = "tx"
    /\ rp.cs.bonded # None
    /\ rp.cs.ledger.claimedRewards # << >>
    /\ rp.tx.report = rp.report

\* C13: in debug mode, after the detection of era E, the report of each
\* pending stash is built, eth_sendRawTransaction is never called,
\* LastReported of each processed stash becomes E-1 and the gauge
\* last_era_reported becomes E-1 at the end of the reporting.
C13_DebugMode ==
    [][debug_mode =>
         /\ StashStep =>
               /\ ~ev'.called
               /\ ~ev'.sent
               /\ sentSet' = sentSet
               /\ onchain' = onchain
               /\ (~ev'.skipped => (ev'.built \/ ev'.raised))
               /\ (~ev'.skipped /\ ~ev'.raised) =>
                     /\ ev'.built
                     /\ ev'.created
                     /\ last_era_reported' =
                          DictSet(last_era_reported, ev'.stash, active_era_id - 1)
         /\ (pc = "stash" /\ ev'.op = "finish") =>
               /\ m_last_era_reported' = active_era_id - 1
               /\ \A s \in Range(stashAccounts) :
                     DictGet(last_era_reported', s, 0) >= active_era_id - 1]_vars

\* in debug mode the reporting of an era has finished for two stashes that
\* OracleMaster does not show as reported
C13_Witness ==
    /\ debug_mode
    /\ ev.op = "finish"
    /\ Len(stashAccounts) = 2
    /\ m_last_era_reported = ev.era - 1
    /\ sentSet = {}
    /\ \A s \in Range(stashAccounts) :
         /\ ~onchain[s].reported
         /\ s \in DOMAIN last_era_reported
         /\ last_era_reported[s] = ev.era - 1

\* C14: on a tick where the relay active era differs from getCurrentEraId():
\* with era_delay_time_start = 0 the current time is recorded and the
\* cross-check triggers no shutdown; otherwise the delay shutdown is
\* triggered on that tick exactly when now - era_delay_time_start exceeds
\* ERA_DELAY_TIME.
C14_DisagreementDelay ==
    (tk.pc # "off" /\ tk.last.op = "tick" /\ tk.last.disagree) =>
        IF tk.last.start_before = 0
        THEN /\ tk.last.start_checked = tk.last.check_time
             /\ ~tk.last.by_cross_check
        ELSE tk.last.by_cross_check <=>
                tk.last.check_time - tk.last.start_before > tk.era_delay_time_limit

\* the cross-check has shut the service down, and a tick with the delay
\* equal to ERA_DELAY_TIME has not
C14_Witness ==
    /\ tk.pc = "shutdown"
    /\ tk.last.op = "tick"
    /\ tk.last.by_cross_check
    /\ tk.last.start_before > 0
    /\ tk.last.check_time - tk.last.start_before = tk.era_delay_time_limit + 1

\* C15: once the delay shutdown is triggered the gauge era_update_delayed
\* is set before the sleep, the interrupt is sent only after the sleep and
\* ends the process, and between the trigger and the end no report is built
\* or submitted.
C15_DelayShutdown ==
    [][/\ (pc # "shutdown" /\ pc' = "shutdown") => era_update_delayed'
       /\ ev'.op = "exit" => (pc = "shutdown" /\ era_update_delayed /\ pc' = "exited")
       /\ pc = "shutdown" =>
             /\ era_update_delayed
             /\ pc' \in {"shutdown", "exited"}
             /\ pc' = "exited" => ev'.op = "exit"
             /\ ~StashStep
             /\ sentSet' = sentSet /\ processedSet' = processedSet
             /\ onchain' = onchain /\ last_era_reported' = last_era_reported
       /\ pc = "exited" => (pc' = "exited" /\ UNCHANGED ctrlVars)]_vars

\* the service has left after the sleep of a delay shutdown that followed
\* the processing of a stash
C15_Witness ==
    /\ pc = "exited"
    /\ ev.op = "exit"
    /\ era_update_delayed
    /\ processedSet # {}

\* the exception that start's except clause holds is the one of a socket
\* that is closed already
SocketClosed ==
    /\ exc.type = "WebSocketConnectionClosedException"
    /\ exc.msg = SocketClosedMsg

\* C17: a WebSocketConnectionClosedException with the message 'socket is
\* already closed.' that reaches the outer loop makes the process exit; it
\* does not enter the recovery.
C17_SocketClosedExits ==
    [][(pc = "except" /\ SocketClosed /\ pc' # pc) =>
           (pc' = "exited" /\ ~is_recovery_mode_active')]_vars

\* C18: every other exception raised while restoring, in a tick, while
\* reporting or by an attempt to reconnect leads to the recovery: the relay
\* chain session is connected first, then the parachain session, each tried
\* until it succeeds, and then the loop is resumed; none ends the process.
C18_RecoveryAlways ==
    [][/\ (pc = "except" /\ ~SocketClosed /\ pc' # pc) =>
             (pc' = "recover_relay" /\ is_recovery_mode_active' /\ was_recovered')
       /\ (pc = "recover_relay" /\ ev'.op = "reconnect_relay") =>
             /\ pc' = IF ev'.connected THEN "recover_para" ELSE "recover_relay"
             /\ is_recovery_mode_active'
       /\ (pc = "recover_relay" /\ pc' # pc) => pc' = "recover_para"
       /\ (pc = "recover_para" /\ ev'.op = "reconnect_para") =>
             /\ pc' = IF ev'.connected THEN "restoring" ELSE "recover_para"
             /\ is_recovery_mode_active' = ~ev'.connected
       /\ (pc = "recover_para" /\ pc' # pc) => pc' = "restoring"
       /\ pc' = "recover_para" => pc \in {"recover_relay", "recover_para"}
       /\ (pc' = "exited" /\ pc # "exited") => (pc = "shutdown" \/ (pc = "except" /\ SocketClosed))
       /\ (pc \in {"restoring", "idle", "handle", "wait", "stash"} /\ exc' # NoExc) =>
             pc' = "except"]_vars

\* the recovery that followed an exception raised while a stash was
\* processed is complete and start restores the state again
C18_Witness ==
    /\ pc = "restoring"
    /\ ev.op = "reconnect_para"
    /\ ev.connected
    /\ was_recovered
    /\ ~is_recovery_mode_active
    /\ processedSet # {}

\* C16: a process that ends because it received SIGINT or SIGTERM, the
\* SIGINT it sends itself on a delay shutdown included, ends with exit code 0.
C16_SignalExitCode ==
    (mn.pc = "exited" /\ mn.exit.cause = "signal") => mn.exit.code = 0

\* C19: at the start of the process, when no URL of a session ever accepts a
\* connection, the process gives up after at most 20 attempts to connect and
\* exits with a fatal error.
C19_BoundedConnects ==
    /\ (mn.pc = "provider" /\ ~mn.para_accepts) =>
          mn.connects < MAX_ATTEMPTS_TO_RECONNECT
    /\ (mn.pc = "interface" /\ ~mn.relay_accepts) =>
          mn.connects < MAX_ATTEMPTS_TO_RECONNECT
    /\ (mn.pc = "exited" /\ mn.exit.cause = "startup") => mn.exit.code # 0

\* C20: the ABI check at the start is fatal whenever reportRelay,
\* getStashAccounts, getCurrentEraId or isReportedLastEra is missing from the
\* ABI, whether the dry run of reportRelay reverts or not; a dry run that
\* reverts is not fatal by itself.
C20_AbiValidation ==
    mn.pc # "off" =>
        /\ (mn.abi_checked /\ mn.abi # OracleMasterMethods) =>
              (mn.pc = "exited" /\ mn.exit.cause = "startup" /\ mn.exit.code # 0)
        /\ \A stash_call \in AbiCallOutcomes :
              (stash_call \in {"ok", "ValueError"}) =>
                  check_oracle_master_contract_abi(OracleMasterMethods, "ValueError", stash_call) = AbiPassed

\* the order the claims give the steps of one stash
StepOrder ==
    <<"build_report", "create_tx", "dry_run", "sign", "submit", "receipt",
      "balance", "update">>

StepPos(step) == CHOOSE i \in DOMAIN StepOrder : StepOrder[i] = step

InStepOrder(steps) ==
    /\ \A i \in DOMAIN steps : \E k \in DOMAIN StepOrder : StepOrder[k] = steps[i]
    /\ \A i, j \in DOMAIN steps : i < j => StepPos(steps[i]) < StepPos(steps[j])

\* C21: in one run of _handle_era_change the block is searched and its
\* finalization awaited once, before any stash; the stashes are taken in the
\* order of getStashAccounts(); the steps of a stash (report, dry run, sign,
\* submit, receipt, last_era_reported) are taken in that order and are over
\* before the next stash begins.
C21_StepOrder ==
    [][/\ (pc' = "wait" /\ pc # "wait") => (pc = "handle" /\ ev'.op = "handle")
       /\ (pc' = "stash" /\ pc # "stash") =>
             (pc = "wait" /\ ev'.op = "wait" /\ ev'.result = "finalized" /\ idx' = 1)
       /\ pc = "stash" => pc' \notin {"handle", "wait"}
       /\ (pc = "stash" /\ pc' = "stash") => block' = block
       /\ StashStep =>
             /\ ev'.op = "stash"
             /\ ev'.stash = stashAccounts[idx]
             /\ idx' = IF ev'.raised THEN idx ELSE idx + 1
             /\ ev'.raised => pc' = "except"
             /\ InStepOrder(ev'.steps)
             /\ (~ev'.skipped /\ ~ev'.raised) =>
                   /\ ev'.steps[1] = "build_report"
                   /\ ev'.steps[Len(ev'.steps)] = "update"
                   /\ last_era_reported' = DictSet(last_era_reported, ev'.stash, ev'.era)
             /\ (ev'.outcome \in {"Sent", "Reverted"} /\ ~ev'.raised) =>
                   ev'.steps = <<"build_report", "create_tx", "dry_run", "sign",
                                 "submit", "receipt", "balance", "update">>
             /\ ev'.skipped => (ev'.steps = << >> /\ last_era_reported' = last_era_reported)]_vars

\* the second stash of the list has been reported after the first
C21_Witness ==
    /\ pc = "stash"
    /\ ev.op = "stash"
    /\ Len(stashAccounts) = 2
    /\ idx = 3
    /\ ev.stash = stashAccounts[2]
    /\ ev.outcome = "Sent"
    /\ <<stashAccounts[1], ev.era>> \in sentSet

\* the active era of the relay chain is recorded as handled and no stash of
\* the list is behind the era before it
EraHandled(E) ==
    /\ pc = "idle"
    /\ previous_active_era_id = E
    /\ \A s \in Range(stashAccounts) : DictGet(last_era_reported, s, 0) >= E - 1

\* no stash is submitted twice for an era
OneAttempt ==
    (StashStep /\ ~ev'.skipped) =>
        /\ DictGet(last_era_reported, ev'.stash, 0) < ev'.era
        /\ <<ev'.stash, ev'.era>> \notin processedSet
        /\ last_era_reported' = DictSet(last_era_reported, ev'.stash, ev'.era)

C23_NewEraOnly ==
    /\ previous_active_era_id = -1
    /\ [][/\ (pc = "idle" /\ ev'.op = "tick" /\ ev'.era >= 0) =>
                /\ (pc' = "handle") <=> (ev'.era > previous_active_era_id)
                /\ pc' = "handle" => active_era_id' = ev'.era
                /\ pc' # "handle" =>
                      /\ pc' \in {"idle", "shutdown"}
                      /\ UNCHANGED <<last_era_reported, previous_active_era_id>>
                      /\ UNCHANGED <<block, sentSet, processedSet, onchain>>
          /\ (pc' = "handle" /\ pc # "handle") => (pc = "idle" /\ ev'.op = "tick")
          /\ (pc' \in {"wait", "stash"}) => pc \in {"handle", "wait", "stash"}]_vars

\* a tick has read an era that was handled before and the controller stays idle
C23_Witness ==
    /\ pc = "idle"
    /\ ev.op = "tick"
    /\ ev.era = previous_active_era_id
    /\ ev.era >= 1
    /\ processedSet # {}

\* C24 as stated: whenever the handling of a detected era E returns without
\* raising, whatever list getStashAccounts() returned (the empty one
\* included), the gauge last_era_reported is E - 1 and
\* previous_active_era_id is E.
C24_GaugeAfterReporting ==
    [][(pc \in {"handle", "stash"} /\ pc' \in {"idle", "shutdown"}) =>
           /\ m_last_era_reported' = active_era_id - 1
           /\ previous_active_era_id' = active_era_id]_vars

\* C24 amended: whenever the handling of a detected era E returns without
\* raising, previous_active_era_id is E; the gauge last_era_reported is E - 1
\* when getStashAccounts() returned at least one stash and is left as it was
\* when the list was empty.
C24_GaugeUnlessEmpty ==
    [][(pc \in {"handle", "stash"} /\ pc' \in {"idle", "shutdown"}) =>
           /\ previous_active_era_id' = active_era_id
           /\ stashAccounts # <<>> => m_last_era_reported' = active_era_id - 1
           /\ stashAccounts = <<>> => m_last_era_reported' = m_last_era_reported]_vars

\* the handling of an era has returned early on an empty list, with the era
\* recorded and the gauge not at the era before it
C24_Witness ==
    /\ ev.op = "handle"
    /\ pc \in {"idle", "shutdown"}
    /\ stashAccounts = <<>>
    /\ previous_active_era_id >= 1
    /\ m_last_era_reported # previous_active_era_id - 1

\* C25: on every tick in which the active era of the relay chain equals
\* getCurrentEraId(), era_delay_time_start is 0 after the cross-check: a
\* start of a disagreement recorded before is discarded.
C25_AgreementResetsStart ==
    (tk.last.op = "tick" /\ ~tk.last.disagree) => tk.last.start_checked = 0

C27_DebugDryRun ==
    [][(debug_mode /\ StashStep /\ ~ev'.skipped /\ ev'.created) =>
           /\ ev'.called
           /\ \E i \in DOMAIN ev'.steps : ev'.steps[i] = "dry_run"
           /\ ~ev'.sent]_vars

\* C28: every call of _sign_and_send_to_para that returns observes exactly
\* one of the histograms tx_success and tx_revert, once and with the value
\* 1: tx_success when the status of the receipt is 1, tx_revert when the dry
\* run reverts or the status of the receipt is 0; last_failed_era is set to
\* the era reported in the two cases of a revert and is left as it was on
\* success.
C28_OneHistogram ==
    [][(StashStep /\ ~ev'.skipped /\ ev'.called /\ ev'.outcome # "raise") =>
           LET success == ev'.call = "ok" /\ ev'.receipt.status = 1
               reverted == ev'.call = "revert"
                              \/ (ev'.call = "ok" /\ ev'.receipt.status = 0)
           IN /\ success \/ reverted
              /\ Len(ev'.obs) = 1
              /\ ev'.obs[1][2] = 1
              /\ success => /\ ev'.obs[1][1] = "tx_success"
                            /\ m_last_failed_era' = m_last_failed_era
              /\ reverted => /\ ev'.obs[1][1] = "tx_revert"
                             /\ m_last_failed_era' = ev'.era]_vars

\* a submission has ended with a receipt that shows a revert, after an
\* earlier one for another stash of the same era that succeeded
C28_Witness ==
    /\ ev.op = "stash"
    /\ ~ev.skipped
    /\ ev.outcome = "Reverted"
    /\ ev.obs = << <<"tx_revert", 1>> >>
    /\ m_last_failed_era = ev.era
    /\ \E s \in Stashes : s # ev.stash /\ <<s, ev.era>> \in sentSet
                             /\ onchain[s] = [era |-> ev.era, reported |-> TRUE]

\* C29: the state is restored only when the process starts: when the
\* recovery has connected both sessions again, is_recovery_mode_active is
\* cleared and the controller is idle next, and the recovery does not write
\* last_era_reported again.
C29_RestoreAtStartOnly ==
    [][/\ (pc = "recover_para" /\ ev'.op = "reconnect_para" /\ ev'.connected) =>
             /\ ~is_recovery_mode_active'
             /\ pc' = "idle"
       /\ (pc' = "restoring") => (pc = "restoring")
       /\ (was_recovered /\ ev'.op = "restore") =>
             last_era_reported' = last_era_reported]_vars

\* C30 as stated: if no block of the window [low, head] has an active era
\* below E, find_last_block(E) returns (low, hash(low)), where
\* low = max(0, head - ERA_DURATION_IN_BLOCKS).
C30_NoLowerEraReturnsLow ==
    (/\ flb.pc \in {"done", "raised"}
     /\ \A n \in WindowLow(flb.current, flb.dur)..flb.current :
           flb.eras[n + 1] >= flb.era_id) =>
        /\ flb.pc = "done"
        /\ flb.st.block = <<GetBlockHash(WindowLow(flb.current, flb.dur), NoFork),
                            WindowLow(flb.current, flb.dur)>>

\* C30 amended: if no block of the window [low, head] has an active era
\* below E, find_last_block(E) returns (low, hash(low)) when the active era
\* at low is above E; when it is E the search returns
\* (low - 1, hash(low - 1)), and raises BlockNotFound when low is 0.
C30_NoLowerEraReturnsLowOrBefore ==
    (/\ flb.pc \in {"done", "raised"}
     /\ \A n \in WindowLow(flb.current, flb.dur)..flb.current :
           flb.eras[n + 1] >= flb.era_id) =>
        LET low == WindowLow(flb.current, flb.dur)
        IN /\ flb.eras[low + 1] > flb.era_id =>
                 /\ flb.pc = "done"
                 /\ flb.st.block = <<GetBlockHash(low, NoFork), low>>
           /\ (flb.eras[low + 1] = flb.era_id /\ low > 0) =>
                 /\ flb.pc = "done"
                 /\ flb.st.block = <<GetBlockHash(low - 1, NoFork), low - 1>>
           /\ (flb.eras[low + 1] = flb.era_id /\ low = 0) => flb.pc = "raised"

\* a search has returned over a window of several blocks that starts above
\* block 0 and whose blocks are all in the era searched or a later one,
\* the first of them in the era searched
C30_Witness ==
    /\ flb.pc = "done"
    /\ WindowLow(flb.current, flb.dur) > 0
    /\ flb.current > WindowLow(flb.current, flb.dur) + 1
    /\ \A n \in WindowLow(flb.current, flb.dur)..flb.current :
          flb.eras[n + 1] >= flb.era_id
    /\ flb.eras[WindowLow(flb.current, flb.dur) + 1] = flb.era_id
    /\ flb.eras[flb.current + 1] > flb.era_id
    /\ flb.st.probes >= 2

\* C31: for every stash, the entry of last_era_reported never decreases
\* during the life of the process, whatever ticks, handlings of an era,
\* exceptions, recoveries and restores of the state follow one another.
C31_LastReportedMonotone ==
    [][\A s \in DOMAIN last_era_reported :
          /\ s \in DOMAIN last_era_reported'
          /\ last_era_reported'[s] >= last_era_reported[s]]_vars

\* C32 as stated: for every finalized head >= 0 and every era function,
\* find_last_block returns a defined block number n with low <= n <= head,
\* never None, never negative, never outside the window, together with the
\* hash of block n.
C32_ResultInWindow ==
    flb.pc \in {"done", "raised"} =>
        /\ flb.pc = "done"
        /\ flb.st.block # <<>>
        /\ flb.st.block[2] \in WindowLow(flb.current, flb.dur)..flb.current
        /\ flb.st.block[1] = GetBlockHash(flb.st.block[2], NoFork)

\* C32 amended: for every finalized head >= 0 and every era function,
\* find_last_block either returns a defined block number n >= 0 with
\* low - 1 <= n <= head together with the hash of block n, where n is
\* low - 1 only if block low is in era E, or raises BlockNotFound, which it
\* does only if low is 0 and block 0 is in era E; it never returns None.
C32_ResultInWindowOrJustBelow ==
    flb.pc \in {"done", "raised"} =>
        LET low == WindowLow(flb.current, flb.dur)
        IN /\ flb.pc = "done" =>
                 /\ flb.st.block # <<>>
                 /\ flb.st.block[2] >= 0
                 /\ flb.st.block[2] \in (low - 1)..flb.current
                 /\ flb.st.block[2] = low - 1 => flb.eras[low + 1] = flb.era_id
                 /\ flb.st.block[1] = GetBlockHash(flb.st.block[2], NoFork)
           /\ flb.pc = "raised" =>
                 /\ low = 0
                 /\ flb.eras[1] = flb.era_id

\* a search has returned the block just below its window, the last block
\* of the era before the one searched, the transition being at low
C32_Witness ==
    /\ flb.pc = "done"
    /\ WindowLow(flb.current, flb.dur) > 0
    /\ flb.st.block[2] = WindowLow(flb.current, flb.dur) - 1
    /\ flb.eras[WindowLow(flb.current, flb.dur)] = flb.era_id - 1
    /\ flb.st.probes >= 2

\* C33: the delay shutdown of the cross-check is triggered only if the
\* active era of the relay chain and getCurrentEraId() differed in every
\* tick from the one that recorded era_delay_time_start to the one that
\* triggers it: a tick in which the two agree in between starts the
\* measurement again.
C33_ContinuousDisagreement ==
    (tk.pc # "off" /\ tk.last.op = "tick" /\ tk.last.by_cross_check) =>
        ~tk.agreed_since_start

\* C34: if building or submitting the report of a stash raises while era E
\* is handled, no stash later in the order of getStashAccounts() is
\* processed in that attempt and previous_active_era_id stays below E, so
\* the handling starts again from the first stash after the recovery; a
\* later stash is reported for era E-1 only in an attempt in which every
\* stash before it was skipped as reported or was processed without raising.
C34_FailedStashBlocksLater ==
    [][/\ (StashStep /\ ev'.raised) =>
             /\ pc' = "except"
             /\ idx' = idx
             /\ previous_active_era_id' = previous_active_era_id
             /\ previous_active_era_id < active_era_id
             /\ last_era_reported' = last_era_reported
             /\ processedSet' \ processedSet \subseteq {<<ev'.stash, ev'.era>>}
             /\ sentSet' \ sentSet \subseteq {<<ev'.stash, ev'.era>>}
       /\ (StashStep /\ ~ev'.skipped) =>
             \A i \in 1..(idx - 1) :
                AlreadyReported(last_era_reported, stashAccounts[i], active_era_id)
       /\ (pc' = "stash" /\ pc # "stash") => idx' = 1
       /\ pc \in {"except", "recover_relay", "recover_para", "restoring"} =>
             /\ pc' \notin {"handle", "wait", "stash"}
             /\ UNCHANGED <<sentSet, processedSet, previous_active_era_id>>]_vars

\* the calls made for the first of two stashes have raised while an era was
\* handled: the second stash has no report for the era and the era is not
\* recorded as handled
C34_Witness ==
    /\ pc = "except"
    /\ ev.op = "stash"
    /\ ev.raised
    /\ Len(stashAccounts) = 2
    /\ ev.stash = stashAccounts[1]
    /\ previous_active_era_id <= ev.era
    /\ <<stashAccounts[2], ev.era>> \notin processedSet
    /\ ~AlreadyReported(last_era_reported, stashAccounts[2], ev.era + 1)

\* C35: find_last_block terminates for every finalized head >= 0, every
\* ERA_DURATION_IN_BLOCKS > 0 and every era function when no probe fails:
\* every iteration makes the interval [start, end] strictly smaller, so that
\* the midpoints probed are never more than the blocks of the window,
\* head - low + 1.
C35_SearchTerminates ==
    /\ [][(flb.pc = "loop" /\ flb'.pc = "loop") =>
             /\ flb'.st.end - flb'.st.start < flb.st.end - flb.st.start
             /\ flb'.st.start >= flb.st.start
             /\ flb'.st.end <= flb.st.end
             /\ flb'.st.probes = flb.st.probes + 1]_vars
    /\ [](flb.pc # "off" =>
             flb.st.probes <= flb.current - WindowLow(flb.current, flb.dur) + 1)
    /\ [](flb.pc = "loop" /\ flb.st.start <= flb.st.end /\ ~flb.st.raised =>
             flb.st.probes <= flb.st.start - WindowLow(flb.current, flb.dur)
                                 + flb.current - flb.st.end)
    /\ <>(flb.pc \in {"done", "raised"})

\* a search has returned after probing every block of a window of three
\* blocks or more
C35_Witness ==
    /\ flb.pc = "done"
    /\ flb.current - WindowLow(flb.current, flb.dur) >= 2
    /\ flb.st.probes >= 2
    /\ flb.st.start > flb.st.end

====
